---- MODULE Spec2Model ----
(***************************************************************************)
(* Model of the trade statistics fetcher (stat/fetcher.go) and of the bolt *)
(* statistics storage (stat/storage/stat_bolt.go).                         *)
(*                                                                         *)
(* Time is counted in units of 20 seconds instead of nanoseconds and       *)
(* machine words have WordMod values instead of 2^64, so that the numbers  *)
(* stay inside TLC's integers; all uint64 arithmetic of the code is done   *)
(* modulo WordMod, as the code does it modulo 2^64.                        *)
(* Amounts (float64 in the code) are integers.                             *)
(***************************************************************************)
EXTENDS Integers, Sequences, FiniteSets, TLC

\* ------------------------------------------------------------- bounds
\* total number of logs the chain hands out to the log fetcher
MaxLogs == 2
\* number of pipeline runs in which a SetCountry call or a store call fails
MaxFail == 1
\* number of times one pipeline folds one log when a range is replayed
MaxFolds == 2
\* the log fetcher is followed until its last fetched block passes MaxBlock
MaxBlock == 1500
\* of the UTC offsets START_TIMEZONE..END_TIMEZONE every ZoneStep-th one is
\* followed (each offset has buckets of its own, no offset reads another's)
ZoneStep == 5
\* the timepoints that are truncated lie in the days 1..MaxDay
MaxDay == 2

\* ------------------------------------------------------ program constants
REORG_BLOCK_SAFE == 7
START_TIMEZONE == -11
END_TIMEZONE == 14
\* the block window of one log-fetcher request (the literal 1440)
LogWindow == 1440
\* time.Minute, time.Hour and 24 * time.Hour in model time units
Minute == 3
Hour == 60 * Minute
ui64Day == 24 * Hour
\* the number of values of a uint64 word (2^24 standing for 2^64)
WordMod == 16777216
\* LogStorage.MaxRange(): the widest time window of one pipeline run
MaxRange == 4320
\* Fetcher.deployBlock
deployBlock == 2
\* decimals of the ETH and KNC tokens (scaled from 18)
TokenDecimal == 1

\* uint64 arithmetic
U64(x) == x % WordMod

\* the number of values of a byte, and the bytes of a uint64 word (3 standing
\* for 8: WordMod = ByteMod^WordBytes)
ByteMod == 256
WordBytes == 3

\* stat_bolt.go uint64ToBytes: the big-endian bytes of a word
uint64ToBytes(u) ==
    << (u \div (ByteMod * ByteMod)) % ByteMod, (u \div ByteMod) % ByteMod, u % ByteMod >>

\* stat_bolt.go bytesToUint64: 0 unless there are exactly WordBytes bytes
bytesToUint64(b) ==
    IF Len(b) # WordBytes THEN 0
    ELSE (b[1] * ByteMod + b[2]) * ByteMod + b[3]

Pow10(d) == IF d = 0 THEN 1 ELSE 10

\* common.BigToFloat: base units divided by 10^decimal
BigToFloat(amount, decimal) == amount \div Pow10(decimal)

Max(a, b) == IF a > b THEN a ELSE b

\* ---------------------------------------------------------- environment
Users == {"u1", "u2"}
Timezones ==
    { z \in START_TIMEZONE..END_TIMEZONE : (z - START_TIMEZONE) % ZoneStep = 0 }
\* a frequency string: <<"M">>, <<"H">>, <<"D">> or <<"utc", N>> for "utc<N>"
Freqs == << <<"M">>, <<"H">>, <<"D">> >>

\* the blocks of the chain that hold trade logs
LogBlocks == {3, 4}

USER_AGGREGATION == "user_aggregation"
BURNFEE_AGGREGATION == "burn_fee_aggregation"
VOLUME_STAT_AGGREGATION == "volume_stat_aggregation"
TRADE_SUMMARY_AGGREGATION == "trade_summary_aggregation"
WALLET_AGGREGATION == "wallet_aggregation"
COUNTRY_AGGREGATION == "country_aggregation"
RESERVE_VOLUME_AGGREGATION == "reserve_volume_aggregation"

\* the order of RunTradeLogProcessor
PipelineOrder ==
    << USER_AGGREGATION, BURNFEE_AGGREGATION, VOLUME_STAT_AGGREGATION,
       TRADE_SUMMARY_AGGREGATION, WALLET_AGGREGATION, COUNTRY_AGGREGATION,
       RESERVE_VOLUME_AGGREGATION >>

Pipelines == { PipelineOrder[i] : i \in 1..Len(PipelineOrder) }

\* the chain heights the node reports to CurrentBlock()
Heights == {11}

\* the tick times of the trade-log-processor ticker
TickTimes == {3000, 5000}

\* block timestamp of block b: the blocks are 5 hours apart
BlockTime(b) == b * 5 * Hour

\* common.SupportedTokens: address -> decimals, isETH
SupportedTokens ==
    [ eth |-> [Address |-> "eth", Decimal |-> TokenDecimal, IsETH |-> TRUE],
      knc |-> [Address |-> "knc", Decimal |-> TokenDecimal, IsETH |-> FALSE] ]

\* the users who trade in block b
Traders(b) == IF b = 3 THEN {"u1"} ELSE Users

\* The trade a user makes: what the raw decoder and the geo lookup deliver for it.
TradeOf(user) ==
    IF user = "u1"
    THEN [ UserAddress |-> "u1", SrcAddress |-> "eth", DestAddress |-> "knc",
           SrcAmount |-> 20, DestAmount |-> 50, BurnFee |-> 10, WalletFee |-> 10,
           FiatAmount |-> 4, WalletAddress |-> "w1", ReserveAddress |-> "r1",
           Country |-> "US" ]
    ELSE [ UserAddress |-> "u2", SrcAddress |-> "knc", DestAddress |-> "eth",
           SrcAmount |-> 30, DestAmount |-> 10, BurnFee |-> 20, WalletFee |-> 0,
           FiatAmount |-> 2, WalletAddress |-> "w0", ReserveAddress |-> "r1",
           Country |-> "unknown" ]

\* UserStorage.GetUserOfAddress: (addr, 0) when the address is not claimed
GetUserOfAddress(addr) ==
    IF addr = "u1" THEN [email |-> "v@example", regTime |-> BlockTime(3)]
    ELSE [email |-> addr, regTime |-> 0]

VARIABLES
    currentBlock,     \* Fetcher.currentBlock
    logBlock,         \* LogStorage: the persisted last fetched block (0: none)
    tradeLogs,        \* LogStorage: the persisted trade logs
    pending,          \* FetchLogs: the logs of the window not yet persisted
    nlogs,            \* number of logs handed out by the chain so far
    request,          \* the last GetLogs request of the log fetcher and its outcome
    procPc,           \* RunTradeLogProcessor: index of the pipeline to run next
    tickT,            \* RunTradeLogProcessor: the time of the current tick
    checkpoint,       \* tradelog_processor_state: pipeline -> timepoint
    firstTradeEver,   \* user_first_trade_ever: address -> timepoint (0: none)
    firstTradeInDay,  \* user_stat_bucket: <<timezone, day, address>> -> timepoint
    burnFeeStat,      \* <<key, freq, bucket>> -> TotalBurnFee
    volumeStat,       \* <<key, freq, bucket>> -> VolumeStats
    metricStat,       \* <<key, timezone, bucket>> -> MetricStats
    countries,        \* country_stat_bucket
    walletAddrs,      \* wallet_address
    nfail,            \* number of runs with a failed SetCountry or store call so far
    folded,           \* history: pipeline -> (log id -> times folded)
    hazard,           \* history: pipeline -> a store failed or a log arrived late
    storeErr,         \* the store call that returned an error in the last pipeline run
    truncTime,        \* truncation: the timepoint to be truncated
    truncFreq,        \* truncation: the frequency string
    bucketTs,         \* truncation: the bucket start the fetcher computed
    bucketKey,        \* truncation: the bucket key the storage computed
    truncPc,          \* truncation: "input", "once" or "twice"
    versions,         \* a versioned bucket: the set of its keys
    dailyBk,          \* <<bucket prefix, timezone>> -> the set of the bucket's keys
    pruneCall,        \* the PruneDailyBucket call that has just returned: timepoint, timezone
    deleted,          \* the keys the last prune deleted
    stopped,          \* FetcherRunner: Stop was called
    ticks,            \* FetcherRunner: worker -> ticks waiting in its channel
    worker,           \* worker -> "waiting" at its channel or "working"
    addressCategory,  \* UserStorage: address -> category
    pendingAddresses, \* UserStorage: address -> the user and time of an unconfirmed claim
    addressUser,      \* UserStorage: address -> the user and time of a confirmed claim
    lastCall,         \* UserStorage: the update call that has just returned
    scenario,         \* history: how far the calls so far follow PendingThenConfirmed
    createdBk,        \* stat storage: the bucket paths the reads have created
    nwrites,          \* stat storage: number of Set*Stat calls made directly
    lastRun,          \* history: the last pipeline run or log store and what failed in it
    ratePc,           \* FetchReserveRates: "idle", or "workers" between the fan-out and the last store
    rateBlock,        \* FetchReserveRates: the local variable block
    rateWorkers,      \* FetchReserveRates: worker index -> "running" or "done"
    rateData,         \* FetchReserveRates: the sync.Map data, reserve address -> rates
    rateCalls,        \* history: the blockchain.GetReserveRates calls of the tick
    rateStores,       \* history: the StoreReserveRates calls of the tick, in order
    rateTicks,        \* number of rate ticks so far
    catCheckpoint,    \* UserStorage: the last processed cat-log timepoint
    catRun            \* history: the checkpoint read and written by the last cat-log run

vars ==
    << currentBlock, logBlock, tradeLogs, pending, nlogs, request, procPc, tickT,
       checkpoint, firstTradeEver, firstTradeInDay, burnFeeStat, volumeStat,
       metricStat, countries, walletAddrs, nfail, folded, hazard, storeErr,
       truncTime, truncFreq, bucketTs, bucketKey, truncPc, versions, dailyBk,
       pruneCall, deleted, stopped, ticks, worker, addressCategory,
       pendingAddresses, addressUser, lastCall, scenario, createdBk, nwrites,
       lastRun, ratePc, rateBlock, rateWorkers, rateData, rateCalls, rateStores,
       rateTicks, catCheckpoint, catRun >>

truncVars == << truncTime, truncFreq, bucketTs, bucketKey, truncPc >>
pruneVars == << versions, dailyBk, pruneCall, deleted >>
runnerVars == << stopped, ticks, worker >>
\* what the fetcher's log and pipeline steps leave alone
userVars == << addressCategory, pendingAddresses, addressUser, lastCall, scenario >>
readVars == << createdBk, nwrites, lastRun >>
rateVars ==
    << ratePc, rateBlock, rateWorkers, rateData, rateCalls, rateStores, rateTicks >>
catVars == << catCheckpoint, catRun >>
otherVars == << truncVars, pruneVars, runnerVars, userVars, readVars, rateVars, catVars >>

fetcherVars == << currentBlock, logBlock, tradeLogs, pending, nlogs, request >>
statVars ==
    << firstTradeEver, firstTradeInDay, burnFeeStat, volumeStat, metricStat,
       countries, walletAddrs >>
\* the state of the log fetcher and of the trade-log processor
processorVars ==
    << fetcherVars, procPc, tickT, checkpoint, statVars, nfail, folded, hazard,
       storeErr >>

\* ------------------------------------------------------- time bucketing
\* fmt.Sprintf("%s%d", TIMEZONE_BUCKET_PREFIX, i)
TimezoneFreq(i) == <<"utc", i>>

\* strconv.ParseInt(strings.TrimPrefix(freq, "utc"), 10, 64): 0 on a parse error
ParseOffset(freq) == IF Len(freq) = 2 /\ freq[1] = "utc" THEN freq[2] ELSE 0

\* getTimestampFromTimeZone with the offset taken off the day start
getTimestampFromTimeZone_Back(t, freq) ==
    IF freq[1] \in {"m", "M"} THEN U64((t \div Minute) * Minute)
    ELSE IF freq[1] \in {"h", "H"} THEN U64((t \div Hour) * Hour)
    ELSE IF freq[1] \in {"d", "D"} THEN U64((t \div ui64Day) * ui64Day)
    ELSE LET offset == ParseOffset(freq)
             ui64offset == U64(Hour * offset)
         IN  U64((U64(t + ui64offset) \div ui64Day) * ui64Day - ui64offset)

\* fetcher.go getTimestampFromTimeZone. ui64offset is computed once, from the
\* signed offset, and is not recomputed after the offset is negated.
getTimestampFromTimeZone(t, freq) ==
    IF freq[1] \in {"m", "M"} THEN U64((t \div Minute) * Minute)
    ELSE IF freq[1] \in {"h", "H"} THEN U64((t \div Hour) * Hour)
    ELSE IF freq[1] \in {"d", "D"} THEN U64((t \div ui64Day) * ui64Day)
    ELSE LET offset == ParseOffset(freq)
             ui64offset == U64(Hour * offset)
         IN  IF offset > 0
             THEN U64((U64(t + ui64offset) \div ui64Day) * ui64Day + ui64offset)
             ELSE U64((U64(t - ui64offset) \div ui64Day) * ui64Day - ui64offset)

\* getTimestampByFreq with ui64offset computed again after the offset is negated
getTimestampByFreq_Recomputed(t, freq) ==
    IF freq[1] \in {"m", "M"} THEN uint64ToBytes(U64((t \div Minute) * Minute))
    ELSE IF freq[1] \in {"h", "H"} THEN uint64ToBytes(U64((t \div Hour) * Hour))
    ELSE IF freq[1] \in {"d", "D"} THEN uint64ToBytes(U64((t \div ui64Day) * ui64Day))
    ELSE LET offset == ParseOffset(freq)
             ui64offset == U64(Hour * offset)
             negated == U64(Hour * (0 - offset))
         IN  IF offset > 0
             THEN uint64ToBytes(U64((U64(t + ui64offset) \div ui64Day) * ui64Day + ui64offset))
             ELSE uint64ToBytes(U64((U64(t - negated) \div ui64Day) * ui64Day - negated))

\* stat_bolt.go getTimestampByFreq: the bucket key, a word as bytes
getTimestampByFreq(t, freq) ==
    IF freq[1] \in {"m", "M"} THEN uint64ToBytes(U64((t \div Minute) * Minute))
    ELSE IF freq[1] \in {"h", "H"} THEN uint64ToBytes(U64((t \div Hour) * Hour))
    ELSE IF freq[1] \in {"d", "D"} THEN uint64ToBytes(U64((t \div ui64Day) * ui64Day))
    ELSE LET offset == ParseOffset(freq)
             ui64offset == U64(Hour * offset)
         IN  IF offset > 0
             THEN uint64ToBytes(U64((U64(t + ui64offset) \div ui64Day) * ui64Day + ui64offset))
             ELSE uint64ToBytes(U64((U64(t - ui64offset) \div ui64Day) * ui64Day - ui64offset))

\* stat_bolt.go getBucketNameByFreq
getBucketNameByFreq(freq) ==
    IF freq[1] \in {"m", "M"} THEN "minute"
    ELSE IF freq[1] \in {"h", "H"} THEN "hour"
    ELSE IF freq[1] \in {"d", "D"} THEN "day"
    ELSE "utc"

\* ----------------------------------------------------------- log storage
\* LogStorage.GetTradeLogs(fromTime, toTime): the logs with fromTime <= ts <= toTime
GetTradeLogs(fromTime, toTime) ==
    { l \in tradeLogs : fromTime <= l.Timestamp /\ l.Timestamp <= toTime }

\* LogStorage.GetFirstTradeLog / GetLastTradeLog (an error when there is no log)
GetFirstTradeLog ==
    CHOOSE l \in tradeLogs : \A m \in tradeLogs : l.Timestamp <= m.Timestamp
GetLastTradeLog ==
    CHOOSE l \in tradeLogs : \A m \in tradeLogs : l.Timestamp >= m.Timestamp

\* LogStorage.LastBlock with the default of RunLogFetcher
LoadLastBlock == IF logBlock = 0 THEN deployBlock ELSE logBlock

\* no store call of the last pipeline run returned an error
NoError == "none"

\* ----------------------------------------------------------- log fetcher
NoRequest == [fromBlock |-> 0, toBlock |-> 0, current |-> 0, result |-> "none"]

\* RunLogFetcher: the upper end of the window requested after lastBlock
WindowEnd(lastBlock) ==
    LET toBlock == U64(lastBlock + 1 + LogWindow)
        safe == U64(currentBlock - REORG_BLOCK_SAFE)
    IN  IF toBlock > safe THEN safe ELSE toBlock

\* FetchCurrentBlock: a failed call leaves currentBlock as it is
FetchCurrentBlock ==
    /\ \E block \in Heights : block > currentBlock /\ currentBlock' = block
    /\ UNCHANGED << storeErr, otherVars, logBlock, tradeLogs, pending, nlogs, request, procPc, tickT,
                    checkpoint, statVars, nfail, folded, hazard >>

\* the sequences of at most `room` trades <<block, user>> in the blocks
\* `blocks`, in block order
ChainSeqs(blocks, room) ==
    { ls \in UNION { [1..k -> blocks \X Users] : k \in 1..room } :
        /\ \A i \in 1..Len(ls) : ls[i][2] \in Traders(ls[i][1])
        /\ \A i \in 1..(Len(ls) - 1) : ls[i][1] <= ls[i + 1][1] }

\* the logs GetLogs may return for the window, in block order
ChainLogs(fromBlock, toBlock) ==
    ChainSeqs({ b \in LogBlocks : fromBlock <= b /\ b <= toBlock }, MaxLogs - nlogs)

TradeLog(id, block, user) ==
    [id |-> id, UserAddress |-> user, BlockNumber |-> block,
     Timestamp |-> BlockTime(block)]

\* the block persisted when a failed FetchLogs is treated like an empty window
NextLogBlock_OnError(failed, nextBlock, lastBlock, toBlock) ==
    IF nextBlock = lastBlock /\ toBlock # 0 THEN toBlock
    ELSE nextBlock

\* RunLogFetcher lines 545-561: the block persisted after FetchLogs returned
NextLogBlock(failed, nextBlock, lastBlock, toBlock) ==
    IF failed THEN logBlock
    ELSE IF nextBlock = lastBlock /\ toBlock # 0 THEN toBlock
    ELSE nextBlock

\* One tick of RunLogFetcher in which GetLogs fails or returns no log. The
\* fetcher is followed while the chain has logs left to hand out.
LogTickNoLogs ==
    LET lastBlock == LoadLastBlock
        toBlock == WindowEnd(lastBlock)
        fromBlock == lastBlock + 1
    IN  /\ pending = << >>
        /\ nlogs < MaxLogs
        /\ lastBlock <= MaxBlock
        /\ ~(lastBlock + 1 > toBlock)
        /\ \E failed \in BOOLEAN :
             /\ request' = [fromBlock |-> fromBlock, toBlock |-> toBlock,
                            current |-> currentBlock,
                            result |-> IF failed THEN "error" ELSE "empty"]
             /\ logBlock' = NextLogBlock(failed, U64(fromBlock - 1), lastBlock, toBlock)
        /\ UNCHANGED << storeErr, otherVars, currentBlock, tradeLogs, pending, nlogs, procPc, tickT,
                        checkpoint, statVars, nfail, folded, hazard >>

\* One tick of RunLogFetcher in which GetLogs returns logs: FetchLogs starts
\* persisting them one by one.
LogTickLogs ==
    LET lastBlock == LoadLastBlock
        toBlock == WindowEnd(lastBlock)
        fromBlock == lastBlock + 1
    IN  /\ pending = << >>
        /\ lastBlock <= MaxBlock
        /\ ~(lastBlock + 1 > toBlock)
        /\ \E ls \in ChainLogs(fromBlock, toBlock) :
             /\ pending' = [i \in 1..Len(ls) |-> TradeLog(nlogs + i, ls[i][1], ls[i][2])]
             /\ nlogs' = nlogs + Len(ls)
        /\ request' = [fromBlock |-> fromBlock, toBlock |-> toBlock,
                       current |-> currentBlock, result |-> "logs"]
        /\ UNCHANGED << storeErr, otherVars, currentBlock, logBlock, tradeLogs, procPc, tickT,
                        checkpoint, statVars, nfail, folded, hazard >>

\* FetchLogs lines 621-647: persist the next log of the window; after the last
\* one the maximal block number is returned and RunLogFetcher persists it.
StoreTradeLog ==
    /\ pending # << >>
    /\ LET l == Head(pending)
           all == { pending[i].BlockNumber : i \in 1..Len(pending) }
           max == CHOOSE b \in all : \A c \in all : b >= c
       IN  /\ tradeLogs' = tradeLogs \cup {l}
           /\ pending' = Tail(pending)
           /\ hazard' = [p \in Pipelines |-> hazard[p] \/ l.Timestamp <= checkpoint[p]]
           /\ logBlock' = IF Len(pending) = 1
                          THEN NextLogBlock(FALSE, max, LoadLastBlock, request.toBlock)
                          ELSE logBlock
    /\ UNCHANGED << storeErr, otherVars, currentBlock, nlogs, request, procPc, tickT, checkpoint,
                    statVars, nfail, folded >>

\* ------------------------------------------------------------ pipelines
EmptyMap == [k \in {} |-> 0]

\* the value stored under key k, or the zero value when there is none
Lookup(store, k, zero) == IF k \in DOMAIN store THEN store[k] ELSE zero

Put(store, k, v) ==
    IF k \in DOMAIN store THEN [store EXCEPT ![k] = v] ELSE store @@ (k :> v)

\* the orders in which a Go map with key set S may be iterated
Orders(S) ==
    { o \in [1..Cardinality(S) -> S] : \A i, j \in 1..Cardinality(S) : o[i] = o[j] => i = j }

\* the logs of a batch in the order GetTradeLogs delivers them
RECURSIVE BatchSeq(_)
BatchSeq(S) ==
    IF S = {} THEN << >>
    ELSE LET l == CHOOSE x \in S : \A y \in S :
                      x.Timestamp < y.Timestamp \/ (x.Timestamp = y.Timestamp /\ x.id <= y.id)
         IN  << l >> \o BatchSeq(S \ {l})

\* the largest timestamp of a set of logs, 0 for the empty set ("var last uint64")
LastOf(S) ==
    IF S = {} THEN 0
    ELSE LET l == CHOOSE x \in S : \A y \in S : x.Timestamp >= y.Timestamp
         IN  l.Timestamp

\* GetTradeLogTimeRange without the step past the checkpoint
GetTradeLogTimeRange_NoStep(fromTime, t) ==
    LET from1 == U64(fromTime)
        from2 == IF from1 = 0 /\ tradeLogs # {}
                 THEN U64(GetFirstTradeLog.Timestamp - 1)
                 ELSE from1
        toTime == IF U64(t - from2) > MaxRange THEN U64(from2 + MaxRange) ELSE t
    IN  << from2, toTime >>

\* Fetcher.GetTradeLogTimeRange(fromTime, t): <<fromTime, toTime>>
GetTradeLogTimeRange(fromTime, t) ==
    LET from1 == U64(fromTime + 1)
        from2 == IF from1 = 1 /\ tradeLogs # {}
                 THEN U64(GetFirstTradeLog.Timestamp - 1)
                 ELSE from1
        toTime == IF U64(t - from2) > MaxRange THEN U64(from2 + MaxRange) ELSE t
    IN  << from2, toTime >>

\* the logs a run of pipeline p reads at tick time t
Batch(p, t) ==
    LET range == GetTradeLogTimeRange(checkpoint[p], t)
    IN  GetTradeLogs(range[1], range[2])

\* the else branch with the checkpoint moved to toTime whatever the last log is
EmptyRangeCheckpoint_Always(p, t) ==
    GetTradeLogTimeRange(checkpoint[p], t)[2]

\* the else branch of every Run*Aggregation: with no log in the range, the
\* checkpoint moves to toTime when the last stored log is later than toTime
EmptyRangeCheckpoint(p, t) ==
    LET toTime == GetTradeLogTimeRange(checkpoint[p], t)[2]
    IN  IF tradeLogs # {} /\ toTime < GetLastTradeLog.Timestamp
        THEN toTime
        ELSE checkpoint[p]

\* history: the logs of batch are folded once more by pipeline p
Fold(p, batch) ==
    [ q \in Pipelines |->
        IF q # p THEN folded[q]
        ELSE [ i \in DOMAIN folded[q] \cup { l.id : l \in batch } |->
                 Lookup(folded[q], i, 0) + (IF \E l \in batch : l.id = i THEN 1 ELSE 0) ] ]

\* the runs started as goroutines: the run at position i does not wait for the
\* run before it
Turn_NoWait(i, t) ==
    /\ procPc' = IF i = Len(PipelineOrder) THEN 1 ELSE i + 1
    /\ t \in TickTimes
    /\ tickT' = t

\* RunTradeLogProcessor: the run of the pipeline at position i starts; the
\* first run of a tick takes the tick time t from the ticker
Turn(i, t) ==
    /\ procPc = i
    /\ procPc' = IF i = Len(PipelineOrder) THEN 1 ELSE i + 1
    /\ IF i = 1 THEN t >= tickT ELSE t = tickT
    /\ tickT' = t

\* ------------------------------------------------- user-first-trade
\* the checkpoint kept under the one key "last_timepoint" for all pipelines
SetLastProcessedTradeLogTimepoint_OneKey(p, timepoint) ==
    [q \in Pipelines |-> timepoint]

\* SetLastProcessedTradeLogTimepoint(p, timepoint), also as the last step of
\* Set*Stat(stats, last): the checkpoint is kept under the pipeline's name
SetLastProcessedTradeLogTimepoint(p, timepoint) ==
    [checkpoint EXCEPT ![p] = timepoint]

\* DidTrade with the comparison turned round
DidTrade_Later(store, userAddr, timepoint) ==
    store[userAddr] # 0 /\ store[userAddr] >= timepoint

\* BoltStatStorage.DidTrade
DidTrade(store, userAddr, timepoint) ==
    store[userAddr] # 0 /\ store[userAddr] <= timepoint

\* BoltStatStorage.SetFirstTradeEver, the map entries taken in the order `order`
RECURSIVE SetFirstTradeEver(_, _)
SetFirstTradeEver(store, order) ==
    IF order = << >> THEN store
    ELSE LET userAddr == Head(order)[1]
             timepoint == Head(order)[2]
             next == IF ~DidTrade(store, userAddr, timepoint)
                     THEN [store EXCEPT ![userAddr] = timepoint]
                     ELSE store
         IN  SetFirstTradeEver(next, Tail(order))

\* the key of the daily bucket of a timepoint in a timezone
DayKey(userAddr, timepoint, timezone) ==
    << timezone, getTimestampByFreq(timepoint, TimezoneFreq(timezone)), userAddr >>

\* DidTradeInDay that never finds an earlier trade
DidTradeInDay_Never(store, userAddr, timepoint, timezone) == FALSE

\* BoltStatStorage.DidTradeInDay
DidTradeInDay(store, userAddr, timepoint, timezone) ==
    LET k == DayKey(userAddr, timepoint, timezone)
    IN  k \in DOMAIN store /\ store[k] <= timepoint

\* BoltStatStorage.GetFirstTradeInDay: 0 when nothing is stored
GetFirstTradeInDay(userAddr, timepoint, timezone) ==
    Lookup(firstTradeInDay, DayKey(userAddr, timepoint, timezone), 0)

\* SetFirstTradeInDay, one map entry: the loop over the timezones (each
\* timezone has its own bucket, so the iterations do not meet)
SetInDayZones(store, userAddr, timepoint) ==
    LET keys == { DayKey(userAddr, timepoint, timezone) : timezone \in Timezones }
    IN  [ k \in DOMAIN store \cup keys |->
            IF k \in keys /\ ~DidTradeInDay(store, userAddr, timepoint, k[1])
            THEN timepoint
            ELSE store[k] ]

\* BoltStatStorage.SetFirstTradeInDay, the map entries taken in the order `order`
RECURSIVE SetFirstTradeInDay(_, _)
SetFirstTradeInDay(store, order) ==
    IF order = << >> THEN store
    ELSE SetFirstTradeInDay(
             SetInDayZones(store, Head(order)[1], Head(order)[2]),
             Tail(order))

\* Fetcher.RunUserAggregation
RunUserAggregation ==
    \E t \in TickTimes :
        /\ Turn(1, t)
        /\ LET batch == Batch(USER_AGGREGATION, t)
               userTradeList == { << l.UserAddress, l.Timestamp >> : l \in batch }
           IN  IF batch # {}
               THEN /\ \E o1 \in Orders(userTradeList) :
                          firstTradeEver' = SetFirstTradeEver(firstTradeEver, o1)
                    /\ \E o2 \in Orders(userTradeList) :
                          firstTradeInDay' = SetFirstTradeInDay(firstTradeInDay, o2)
                    /\ checkpoint' = SetLastProcessedTradeLogTimepoint(USER_AGGREGATION,
                                                                       LastOf(batch))
                    /\ folded' = Fold(USER_AGGREGATION, batch)
               ELSE /\ checkpoint' = SetLastProcessedTradeLogTimepoint(USER_AGGREGATION,
                                          EmptyRangeCheckpoint(USER_AGGREGATION, t))
                    /\ UNCHANGED << firstTradeEver, firstTradeInDay, folded >>
        /\ storeErr' = NoError
        /\ UNCHANGED << otherVars, fetcherVars, burnFeeStat, volumeStat, metricStat, countries,
                        walletAddrs, nfail, hazard >>

\* ---------------------------------------------------------- trade info
\* Fetcher.getTradeInfo: amounts as floats, the ETH side, the burn fee, kycEd
getTradeInfo(trade) ==
    LET raw == TradeOf(trade.UserAddress)
        userAddr == trade.UserAddress
        src == SupportedTokens[raw.SrcAddress]
        dst == SupportedTokens[raw.DestAddress]
        srcAmount == BigToFloat(raw.SrcAmount, src.Decimal)
        destAmount == BigToFloat(raw.DestAmount, dst.Decimal)
        user == GetUserOfAddress(userAddr)
    IN  [ srcAmount |-> srcAmount,
          destAmount |-> destAmount,
          ethAmount |-> IF dst.IsETH THEN destAmount
                        ELSE IF src.IsETH THEN srcAmount ELSE 0,
          burnFee |-> BigToFloat(raw.BurnFee, SupportedTokens["eth"].Decimal),
          kycEd |-> user.email # "" /\ user.email # userAddr
                       /\ trade.Timestamp > user.regTime ]

\* ------------------------------------------------------------- burn fee
\* Fetcher.aggregateBurnfee: add fee under key at the frequencies M, H, D
RECURSIVE aggregateBurnfee(_, _, _, _, _)
aggregateBurnfee(key, fee, trade, burnFeeStats, i) ==
    IF i > Len(Freqs) THEN burnFeeStats
    ELSE LET freq == Freqs[i]
             k == << key, freq[1], getTimestampFromTimeZone(trade.Timestamp, freq) >>
         IN  aggregateBurnfee(key, fee, trade,
                 Put(burnFeeStats, k, Lookup(burnFeeStats, k, 0) + fee), i + 1)

\* Fetcher.aggregateBurnFeeStats: the reserve's burn fee and the wallet fee
aggregateBurnFeeStats(trade, burnFeeStats) ==
    LET raw == TradeOf(trade.UserAddress)
        reserveAddr == raw.ReserveAddress
        walletAddr == raw.WalletAddress
        walletFee == BigToFloat(raw.WalletFee, SupportedTokens["eth"].Decimal)
        s1 == aggregateBurnfee(reserveAddr, getTradeInfo(trade).burnFee, trade,
                               burnFeeStats, 1)
    IN  aggregateBurnfee(reserveAddr \o "_" \o walletAddr, walletFee, trade, s1, 1)

RECURSIVE FoldBurnFee(_, _)
FoldBurnFee(trades, burnFeeStats) ==
    IF trades = << >> THEN burnFeeStats
    ELSE FoldBurnFee(Tail(trades), aggregateBurnFeeStats(Head(trades), burnFeeStats))

\* BoltStatStorage.SetBurnFeeStat: add every in-memory entry to the stored one
SetBurnFeeStat(store, burnFeeStats) ==
    LET keyOf(k) == << k[1], getBucketNameByFreq(<< k[2] >>), k[3] >>
        keys == { keyOf(k) : k \in DOMAIN burnFeeStats }
        stat(sk) == LET ks == { k \in DOMAIN burnFeeStats : keyOf(k) = sk }
                    IN  IF ks = {} THEN 0 ELSE burnFeeStats[CHOOSE k \in ks : TRUE]
    IN  [ sk \in DOMAIN store \cup keys |-> Lookup(store, sk, 0) + stat(sk) ]

\* the checkpoint a run leaves: `last` after a non-empty batch, else the
\* empty-range branch
RunCheckpoint(p, t, batch, last) ==
    IF batch # {}
    THEN SetLastProcessedTradeLogTimepoint(p, last)
    ELSE SetLastProcessedTradeLogTimepoint(p, EmptyRangeCheckpoint(p, t))

\* Fetcher.RunBurnFeeAggregation
RunBurnFeeAggregation ==
    /\ Turn(2, tickT)
    /\ LET batch == Batch(BURNFEE_AGGREGATION, tickT)
       IN  /\ burnFeeStat' = SetBurnFeeStat(burnFeeStat, FoldBurnFee(BatchSeq(batch), EmptyMap))
           /\ checkpoint' = RunCheckpoint(BURNFEE_AGGREGATION, tickT, batch, LastOf(batch))
           /\ folded' = Fold(BURNFEE_AGGREGATION, batch)
    /\ storeErr' = NoError
    /\ UNCHANGED << otherVars, fetcherVars, firstTradeEver, firstTradeInDay, volumeStat,
                    metricStat, countries, walletAddrs, nfail, hazard >>

\* --------------------------------------------------------------- volume
ZeroVolume == [Volume |-> 0, ETHVolume |-> 0, USDAmount |-> 0]

AddVolume(a, b) ==
    [ Volume |-> a.Volume + b.Volume, ETHVolume |-> a.ETHVolume + b.ETHVolume,
      USDAmount |-> a.USDAmount + b.USDAmount ]

\* Fetcher.aggregateVolumeStat
RECURSIVE aggregateVolumeStat(_, _, _, _, _, _, _)
aggregateVolumeStat(trade, assetAddr, assetAmount, ethAmount, fiatAmount, stats, i) ==
    IF i > Len(Freqs) THEN stats
    ELSE LET freq == Freqs[i]
             k == << assetAddr, freq[1], getTimestampFromTimeZone(trade.Timestamp, freq) >>
             data == AddVolume(Lookup(stats, k, ZeroVolume),
                               [Volume |-> assetAmount, ETHVolume |-> ethAmount,
                                USDAmount |-> fiatAmount])
         IN  aggregateVolumeStat(trade, assetAddr, assetAmount, ethAmount, fiatAmount,
                                 Put(stats, k, data), i + 1)

\* Fetcher.aggregateVolumeStats: token volume of both sides, then user volume
aggregateVolumeStats(trade, volumeStats) ==
    LET raw == TradeOf(trade.UserAddress)
        info == getTradeInfo(trade)
        s1 == aggregateVolumeStat(trade, raw.SrcAddress, info.srcAmount, info.ethAmount,
                                  raw.FiatAmount, volumeStats, 1)
        s2 == aggregateVolumeStat(trade, raw.DestAddress, info.destAmount, info.ethAmount,
                                  raw.FiatAmount, s1, 1)
    IN  aggregateVolumeStat(trade, trade.UserAddress, info.srcAmount, info.destAmount,
                            raw.FiatAmount, s2, 1)

RECURSIVE FoldVolume(_, _)
FoldVolume(trades, volumeStats) ==
    IF trades = << >> THEN volumeStats
    ELSE FoldVolume(Tail(trades), aggregateVolumeStats(Head(trades), volumeStats))

\* BoltStatStorage.SetVolumeStat
SetVolumeStat(store, volumeStats) ==
    LET keyOf(k) == << k[1], getBucketNameByFreq(<< k[2] >>), k[3] >>
        keys == { keyOf(k) : k \in DOMAIN volumeStats }
        stat(sk) == LET ks == { k \in DOMAIN volumeStats : keyOf(k) = sk }
                    IN  IF ks = {} THEN ZeroVolume ELSE volumeStats[CHOOSE k \in ks : TRUE]
    IN  [ sk \in DOMAIN store \cup keys |->
            AddVolume(Lookup(store, sk, ZeroVolume), stat(sk)) ]

\* Fetcher.RunVolumeStatAggregation
RunVolumeStatAggregation ==
    /\ Turn(3, tickT)
    /\ LET batch == Batch(VOLUME_STAT_AGGREGATION, tickT)
       IN  /\ volumeStat' = SetVolumeStat(volumeStat, FoldVolume(BatchSeq(batch), EmptyMap))
           /\ checkpoint' = RunCheckpoint(VOLUME_STAT_AGGREGATION, tickT, batch, LastOf(batch))
           /\ folded' = Fold(VOLUME_STAT_AGGREGATION, batch)
    /\ storeErr' = NoError
    /\ UNCHANGED << otherVars, fetcherVars, firstTradeEver, firstTradeInDay, burnFeeStat,
                    metricStat, countries, walletAddrs, nfail, hazard >>

\* --------------------------------------------------------- metric stats
ZeroMetric ==
    [ ETHVolume |-> 0, USDVolume |-> 0, BurnFee |-> 0, TradeCount |-> 0,
      UniqueAddr |-> 0, NewUniqueAddresses |-> 0, KYCEd |-> 0 ]

AddMetric(a, b) ==
    [ ETHVolume |-> a.ETHVolume + b.ETHVolume, USDVolume |-> a.USDVolume + b.USDVolume,
      BurnFee |-> a.BurnFee + b.BurnFee, TradeCount |-> a.TradeCount + b.TradeCount,
      UniqueAddr |-> a.UniqueAddr + b.UniqueAddr,
      NewUniqueAddresses |-> a.NewUniqueAddresses + b.NewUniqueAddresses,
      KYCEd |-> a.KYCEd + b.KYCEd ]

\* the address counters with kycEd counted for every trade of a KYC'ed user
UniqueCounts_EveryTrade(timeFirstTrade, firstTradeInday, timestamp, kycEd) ==
    IF timeFirstTrade = timestamp
    THEN [NewUniqueAddresses |-> 1, UniqueAddr |-> 1, KYCEd |-> IF kycEd THEN 1 ELSE 0]
    ELSE IF firstTradeInday = timestamp
    THEN [NewUniqueAddresses |-> 0, UniqueAddr |-> 1, KYCEd |-> IF kycEd THEN 1 ELSE 0]
    ELSE [NewUniqueAddresses |-> 0, UniqueAddr |-> 0, KYCEd |-> IF kycEd THEN 1 ELSE 0]

\* aggregateMetricStat lines 869-884: what one trade adds to the address counters
UniqueCounts(timeFirstTrade, firstTradeInday, timestamp, kycEd) ==
    IF timeFirstTrade = timestamp
    THEN [NewUniqueAddresses |-> 1, UniqueAddr |-> 1, KYCEd |-> IF kycEd THEN 1 ELSE 0]
    ELSE IF firstTradeInday = timestamp
    THEN [NewUniqueAddresses |-> 0, UniqueAddr |-> 1, KYCEd |-> IF kycEd THEN 1 ELSE 0]
    ELSE [NewUniqueAddresses |-> 0, UniqueAddr |-> 0, KYCEd |-> 0]

\* Fetcher.aggregateMetricStat: the loop over the timezones (each timezone has
\* its own entry, so the iterations do not meet)
aggregateMetricStat(trade, statKey, ethAmount, burnFee, metricStats, kycEd, allFirstTradeEver) ==
    LET userAddr == trade.UserAddress
        keyOf(i) == << statKey, i,
                       getTimestampFromTimeZone(trade.Timestamp, TimezoneFreq(i)) >>
        keys == { keyOf(i) : i \in Timezones }
        counts(i) == UniqueCounts(allFirstTradeEver[userAddr],
                                  GetFirstTradeInDay(userAddr, trade.Timestamp, i),
                                  trade.Timestamp, kycEd)
        data(i) == [ ETHVolume |-> ethAmount,
                     USDVolume |-> TradeOf(userAddr).FiatAmount,
                     BurnFee |-> burnFee, TradeCount |-> 1,
                     UniqueAddr |-> counts(i).UniqueAddr,
                     NewUniqueAddresses |-> counts(i).NewUniqueAddresses,
                     KYCEd |-> counts(i).KYCEd ]
    IN  [ k \in DOMAIN metricStats \cup keys |->
            IF k \in keys
            THEN AddMetric(Lookup(metricStats, k, ZeroMetric), data(k[2]))
            ELSE metricStats[k] ]

\* the stat key of a trade in each of the three MetricStats pipelines
StatKey(p, trade) ==
    IF p = TRADE_SUMMARY_AGGREGATION THEN "trade_summary"
    ELSE IF p = WALLET_AGGREGATION THEN TradeOf(trade.UserAddress).WalletAddress
    ELSE TradeOf(trade.UserAddress).Country

\* aggregateTradeSumary / aggregateWalletStats / aggregateCountryStats (the fold)
aggregateMetric(p, trade, metricStats, allFirstTradeEver) ==
    LET info == getTradeInfo(trade)
    IN  aggregateMetricStat(trade, StatKey(p, trade), info.ethAmount, info.burnFee,
                            metricStats, info.kycEd, allFirstTradeEver)

RECURSIVE FoldMetric(_, _, _, _)
FoldMetric(p, trades, metricStats, allFirstTradeEver) ==
    IF trades = << >> THEN metricStats
    ELSE FoldMetric(p, Tail(trades),
                    aggregateMetric(p, Head(trades), metricStats, allFirstTradeEver),
                    allFirstTradeEver)

\* SetTradeSummary / SetWalletStat / SetCountryStat: add every in-memory entry
\* (key, timezone, bucket) to the stored one
SetMetricStat(store, stats) ==
    [ k \in DOMAIN store \cup DOMAIN stats |->
        AddMetric(Lookup(store, k, ZeroMetric), Lookup(stats, k, ZeroMetric)) ]

\* Fetcher.RunTradeSummaryAggregation
RunTradeSummaryAggregation ==
    /\ Turn(4, tickT)
    /\ LET batch == Batch(TRADE_SUMMARY_AGGREGATION, tickT)
           tradeSummary == FoldMetric(TRADE_SUMMARY_AGGREGATION, BatchSeq(batch),
                                      EmptyMap, firstTradeEver)
       IN  /\ metricStat' = SetMetricStat(metricStat, tradeSummary)
           /\ checkpoint' = RunCheckpoint(TRADE_SUMMARY_AGGREGATION, tickT, batch,
                                          LastOf(batch))
           /\ folded' = Fold(TRADE_SUMMARY_AGGREGATION, batch)
    /\ storeErr' = NoError
    /\ UNCHANGED << otherVars, fetcherVars, firstTradeEver, firstTradeInDay, burnFeeStat,
                    volumeStat, countries, walletAddrs, nfail, hazard >>

\* the numeric value of a wallet address, in units of 2^128
WalletValue(wallet) == IF wallet = "w0" THEN 0 ELSE 1

\* fetcher.go checkWalletAddress: the address is at least 2^128
checkWalletAddress(wallet) == ~(WalletValue(wallet) < 1)

\* Fetcher.RunWalletStatAggregation
RunWalletStatAggregation ==
    /\ Turn(5, tickT)
    /\ LET batch == Batch(WALLET_AGGREGATION, tickT)
           walletStats == FoldMetric(WALLET_AGGREGATION, BatchSeq(batch), EmptyMap,
                                     firstTradeEver)
       IN  /\ metricStat' = SetMetricStat(metricStat, walletStats)
           /\ walletAddrs' = walletAddrs \cup
                  { TradeOf(l.UserAddress).WalletAddress : l \in
                      { m \in batch : checkWalletAddress(TradeOf(m.UserAddress).WalletAddress) } }
           /\ checkpoint' = RunCheckpoint(WALLET_AGGREGATION, tickT, batch, LastOf(batch))
           /\ folded' = Fold(WALLET_AGGREGATION, batch)
    /\ storeErr' = NoError
    /\ UNCHANGED << otherVars, fetcherVars, firstTradeEver, firstTradeInDay, burnFeeStat,
                    volumeStat, countries, nfail, hazard >>

\* Fetcher.RunCountryStatAggregation; SetCountry fails for the logs in `failing`
RunCountryStatAggregation ==
    /\ Turn(6, tickT)
    /\ LET batch == Batch(COUNTRY_AGGREGATION, tickT)
       IN  \E failing \in SUBSET batch :
             LET done == batch \ failing
                 countryStats == FoldMetric(COUNTRY_AGGREGATION, BatchSeq(done), EmptyMap,
                                            firstTradeEver)
             IN  /\ countries' = countries \cup { TradeOf(l.UserAddress).Country : l \in done }
                 /\ metricStat' = SetMetricStat(metricStat, countryStats)
                 /\ checkpoint' = RunCheckpoint(COUNTRY_AGGREGATION, tickT, batch, LastOf(done))
                 /\ folded' = Fold(COUNTRY_AGGREGATION, done)
                 /\ hazard' = [hazard EXCEPT ![COUNTRY_AGGREGATION] = @ \/ failing # {}]
                 /\ failing # {} => nfail < MaxFail
                 /\ nfail' = IF failing # {} THEN nfail + 1 ELSE nfail
    /\ storeErr' = NoError
    /\ UNCHANGED << otherVars, fetcherVars, firstTradeEver, firstTradeInDay, burnFeeStat,
                    volumeStat, walletAddrs >>

\* Fetcher.RunReserveVolumeAggregation: nothing is written for a non-empty range
RunReserveVolumeAggregation ==
    /\ Turn(7, tickT)
    /\ LET batch == Batch(RESERVE_VOLUME_AGGREGATION, tickT)
       IN  checkpoint' = RunCheckpoint(RESERVE_VOLUME_AGGREGATION, tickT, batch,
                                       checkpoint[RESERVE_VOLUME_AGGREGATION])
    /\ storeErr' = NoError
    /\ UNCHANGED << otherVars, fetcherVars, statVars, nfail, folded, hazard >>

\* ------------------------------------------------------- specification
\* the truncation, pruning and runner parts at rest
TruncIdle ==
    /\ truncTime = 0
    /\ truncFreq = << "M" >>
    /\ bucketTs = 0
    /\ bucketKey = << >>
    /\ truncPc = "idle"

\* no PruneDailyBucket call has returned since the last write
NoPrune == [timepoint |-> 0, timezone |-> 0, done |-> FALSE]

PruneIdle ==
    /\ versions = {}
    /\ dailyBk = [b \in {} |-> {}]
    /\ pruneCall = NoPrune
    /\ deleted = {}

\* no pipeline run was followed yet
NoRun == [p |-> "none"]

\* the user-identity store with no claim, no category and no processed cat
\* log; no read was made and no rate tick has come
UserIdle ==
    /\ addressCategory = [a \in {} |-> ""]
    /\ pendingAddresses = [a \in {} |-> ""]
    /\ addressUser = [a \in {} |-> ""]
    /\ lastCall = [op |-> "none"]
    /\ scenario = << >>
    /\ createdBk = {}
    /\ nwrites = 0
    /\ lastRun = NoRun
    /\ ratePc = "idle"
    /\ rateBlock = 0
    /\ rateWorkers = << >>
    /\ rateData = [a \in {} |-> 0]
    /\ rateCalls = {}
    /\ rateStores = << >>
    /\ rateTicks = 0
    /\ catCheckpoint = 0
    /\ catRun = NoRun

RunnerIdle ==
    /\ stopped = FALSE
    /\ ticks = [w \in {} |-> 0]
    /\ worker = [w \in {} |-> "waiting"]

\* NewFetcher and the empty storage
FetcherInit ==
    /\ currentBlock = 0
    /\ logBlock = 0
    /\ tradeLogs = {}
    /\ pending = << >>
    /\ nlogs = 0
    /\ request = NoRequest
    /\ procPc = 1
    /\ tickT = 0
    /\ checkpoint = [p \in Pipelines |-> 0]
    /\ firstTradeEver = [u \in Users |-> 0]
    /\ firstTradeInDay = EmptyMap
    /\ burnFeeStat = EmptyMap
    /\ volumeStat = EmptyMap
    /\ metricStat = EmptyMap
    /\ countries = {}
    /\ walletAddrs = {}
    /\ nfail = 0
    /\ folded = [p \in Pipelines |-> EmptyMap]
    /\ hazard = [p \in Pipelines |-> FALSE]
    /\ storeErr = NoError

Init ==
    /\ FetcherInit
    /\ UserIdle
    /\ TruncIdle
    /\ PruneIdle
    /\ RunnerIdle

Next ==
    \/ FetchCurrentBlock
    \/ LogTickNoLogs
    \/ LogTickLogs
    \/ StoreTradeLog
    \/ RunUserAggregation
    \/ RunBurnFeeAggregation
    \/ RunVolumeStatAggregation
    \/ RunTradeSummaryAggregation
    \/ RunWalletStatAggregation
    \/ RunCountryStatAggregation
    \/ RunReserveVolumeAggregation

Spec == Init /\ [][Next]_vars

\* ------------------------------------------------------------- replay
\* The pipelines are run over a range for a second time: between two ticks the
\* checkpoints are set back to 0.  A log is folded at most MaxFolds times by a
\* pipeline.
Rewind ==
    /\ procPc = 1
    /\ \E p \in Pipelines : checkpoint[p] # 0
    /\ \A p \in Pipelines : \A i \in DOMAIN folded[p] : folded[p][i] < MaxFolds
    /\ checkpoint' = [p \in Pipelines |-> SetLastProcessedTradeLogTimepoint(p, 0)[p]]
    /\ UNCHANGED << storeErr, otherVars, fetcherVars, procPc, tickT, statVars, nfail, folded, hazard >>

\* the trade logs are in the log storage before the processor's first tick
InitReplay ==
    /\ currentBlock \in Heights
    /\ \E ls \in ChainSeqs(LogBlocks, MaxLogs) :
         /\ tradeLogs = { TradeLog(i, ls[i][1], ls[i][2]) : i \in 1..Len(ls) }
         /\ nlogs = Len(ls)
         /\ logBlock = ls[Len(ls)][1]
    /\ pending = << >>
    /\ request = [fromBlock |-> deployBlock + 1,
                  toBlock |-> currentBlock - REORG_BLOCK_SAFE,
                  current |-> currentBlock, result |-> "logs"]
    /\ procPc = 1
    /\ tickT = 0
    /\ checkpoint = [p \in Pipelines |-> 0]
    /\ firstTradeEver = [u \in Users |-> 0]
    /\ firstTradeInDay = EmptyMap
    /\ burnFeeStat = EmptyMap
    /\ volumeStat = EmptyMap
    /\ metricStat = EmptyMap
    /\ countries = {}
    /\ walletAddrs = {}
    /\ nfail = 0
    /\ folded = [p \in Pipelines |-> EmptyMap]
    /\ hazard = [p \in Pipelines |-> FALSE]
    /\ storeErr = NoError
    /\ UserIdle
    /\ TruncIdle
    /\ PruneIdle
    /\ RunnerIdle

NextReplay ==
    \/ RunUserAggregation
    \/ RunBurnFeeAggregation
    \/ RunVolumeStatAggregation
    \/ RunTradeSummaryAggregation
    \/ RunWalletStatAggregation
    \/ RunCountryStatAggregation
    \/ RunReserveVolumeAggregation
    \/ Rewind

SpecReplay == InitReplay /\ [][NextReplay]_vars

\* ------------------------------------------------------- store errors
\* RunUserAggregation when SetFirstTradeEver or SetFirstTradeInDay returns an
\* error: the run does not look at the returned error and goes on to write the
\* checkpoint (lines 411-414)
RunUserAggregationStoreError ==
    \E t \in TickTimes, failed \in {"SetFirstTradeEver", "SetFirstTradeInDay"} :
        /\ Turn(1, t)
        /\ LET batch == Batch(USER_AGGREGATION, t)
               userTradeList == { << l.UserAddress, l.Timestamp >> : l \in batch }
           IN  /\ batch # {}
               /\ IF failed = "SetFirstTradeEver"
                  THEN firstTradeEver' = firstTradeEver
                  ELSE \E o1 \in Orders(userTradeList) :
                          firstTradeEver' = SetFirstTradeEver(firstTradeEver, o1)
               /\ IF failed = "SetFirstTradeInDay"
                  THEN firstTradeInDay' = firstTradeInDay
                  ELSE \E o2 \in Orders(userTradeList) :
                          firstTradeInDay' = SetFirstTradeInDay(firstTradeInDay, o2)
               /\ checkpoint' = SetLastProcessedTradeLogTimepoint(USER_AGGREGATION,
                                                                  LastOf(batch))
               /\ folded' = Fold(USER_AGGREGATION, batch)
        /\ storeErr' = failed
        /\ hazard' = [hazard EXCEPT ![USER_AGGREGATION] = TRUE]
        /\ nfail < MaxFail
        /\ nfail' = nfail + 1
        /\ UNCHANGED << otherVars, fetcherVars, burnFeeStat, volumeStat, metricStat,
                        countries, walletAddrs >>

\* The run of an additive pipeline over a non-empty batch when the transaction
\* of its Set*Stat(stats, last) fails: db.Update rolls the transaction back, the
\* buckets and the checkpoint written inside it stay as they were.
SetStatStoreError ==
    /\ procPc \in 2..6
    /\ Turn(procPc, tickT)
    /\ Batch(PipelineOrder[procPc], tickT) # {}
    /\ storeErr' = "SetStat"
    /\ nfail < MaxFail
    /\ nfail' = nfail + 1
    /\ UNCHANGED << otherVars, fetcherVars, checkpoint, statVars, folded, hazard >>

NextStoreError ==
    \/ RunUserAggregation
    \/ RunBurnFeeAggregation
    \/ RunVolumeStatAggregation
    \/ RunTradeSummaryAggregation
    \/ RunWalletStatAggregation
    \/ RunCountryStatAggregation
    \/ RunReserveVolumeAggregation
    \/ RunUserAggregationStoreError
    \/ SetStatStoreError

SpecStoreError == InitReplay /\ [][NextStoreError]_vars

\* ----------------------------------------------------------- truncation
\* the frequency strings: m/M, h/H, d/D and utc-11 .. utc14
FreqStrings ==
    { << c >> : c \in {"m", "M", "h", "H", "d", "D"} }
        \cup { TimezoneFreq(z) : z \in START_TIMEZONE..END_TIMEZONE }

\* times of day, among them 03:25:36, and the timepoints that are truncated
TimesOfDay == { 0, 1, 3 * Hour + 25 * Minute + 1, 12 * Hour, ui64Day - 1 }
TruncTimes == { d * ui64Day + r : d \in 1..MaxDay, r \in TimesOfDay }

\* a writer (aggregate*Stat) and the storage truncate a timepoint
Truncate ==
    /\ truncPc = "input"
    /\ bucketTs' = getTimestampFromTimeZone(truncTime, truncFreq)
    /\ bucketKey' = getTimestampByFreq(truncTime, truncFreq)
    /\ truncPc' = "once"
    /\ UNCHANGED << truncTime, truncFreq, processorVars, userVars, readVars, pruneVars, runnerVars,
                    rateVars, catVars >>

\* the bucket start is truncated again, as when a reader passes a bucket start
\* it was given back to the storage
Retruncate ==
    /\ truncPc = "once"
    /\ truncTime' = bucketTs
    /\ bucketTs' = getTimestampFromTimeZone(bucketTs, truncFreq)
    /\ bucketKey' = getTimestampByFreq(bytesToUint64(bucketKey), truncFreq)
    /\ truncPc' = "twice"
    /\ UNCHANGED << truncFreq, processorVars, userVars, readVars, pruneVars, runnerVars,
                    rateVars, catVars >>

InitTruncate ==
    /\ FetcherInit
    /\ UserIdle
    /\ PruneIdle
    /\ RunnerIdle
    /\ truncTime \in TruncTimes
    /\ truncFreq \in FreqStrings
    /\ bucketTs = 0
    /\ bucketKey = << >>
    /\ truncPc = "input"

NextTruncate ==
    \/ Truncate
    \/ Retruncate

SpecTruncate == InitTruncate /\ [][NextTruncate]_vars

\* ------------------------------------------------------------- workers
\* the goroutines Run starts
Workers == { "block", "log", "rate", "tradelog", "catlog" }

\* FetcherRunner: a tick is put into the channel of worker w
RunnerTick(w) ==
    /\ ~stopped
    /\ ticks[w] = 0
    /\ ticks' = [ticks EXCEPT ![w] = 1]
    /\ UNCHANGED << stopped, worker, processorVars, userVars, readVars, truncVars, pruneVars,
                    rateVars, catVars >>

\* Fetcher.Stop: runner.Stop() ends the ticker source
Stop ==
    /\ ~stopped
    /\ stopped' = TRUE
    /\ UNCHANGED << ticks, worker, processorVars, userVars, readVars, truncVars, pruneVars,
                    rateVars, catVars >>

\* "t := <-self.runner.Get...Ticker()" of the loop of worker w
Receive(w) ==
    /\ worker[w] = "waiting"
    /\ ticks[w] = 1
    /\ ticks' = [ticks EXCEPT ![w] = 0]
    /\ worker' = [worker EXCEPT ![w] = "working"]
    /\ UNCHANGED << stopped, processorVars, userVars, readVars, truncVars, pruneVars,
                    rateVars, catVars >>

\* the body of the loop of worker w has run; the loop goes back to the receive
Finish(w) ==
    /\ worker[w] = "working"
    /\ worker' = [worker EXCEPT ![w] = "waiting"]
    /\ UNCHANGED << stopped, ticks, processorVars, userVars, readVars, truncVars, pruneVars,
                    rateVars, catVars >>

\* Fetcher.Run has started the runner and the five workers
InitRunner ==
    /\ FetcherInit
    /\ UserIdle
    /\ TruncIdle
    /\ PruneIdle
    /\ stopped = FALSE
    /\ ticks = [w \in Workers |-> 0]
    /\ worker = [w \in Workers |-> "waiting"]

NextRunner ==
    \/ Stop
    \/ \E w \in Workers : RunnerTick(w)
    \/ \E w \in Workers : Receive(w)
    \/ \E w \in Workers : Finish(w)

\* a worker that can receive a tick or finish its work does so
SpecRunner ==
    /\ InitRunner
    /\ [][NextRunner]_vars
    /\ \A w \in Workers : WF_vars(Receive(w)) /\ WF_vars(Finish(w))

\* ================================================================ claims
\* the pipelines whose Set*Stat adds to the stored buckets
AdditivePipelines ==
    { BURNFEE_AGGREGATION, VOLUME_STAT_AGGREGATION, TRADE_SUMMARY_AGGREGATION,
      WALLET_AGGREGATION, COUNTRY_AGGREGATION }

\* the sum of the values of a function with a finite domain
RECURSIVE SumFn(_)
SumFn(f) ==
    IF DOMAIN f = {} THEN 0
    ELSE LET x == CHOOSE y \in DOMAIN f : TRUE
         IN  f[x] + SumFn([y \in DOMAIN f \ {x} |-> f[y]])

\* the stored logs at or below the checkpoint of pipeline p
Counted(p) == { l \in tradeLogs : l.Timestamp <= checkpoint[p] }

\* the logs pipeline p has folded at least once
FoldedLogs(p) == { l \in tradeLogs : l.id \in DOMAIN folded[p] }

\* the frequency of a bucket name
FreqOfBucket(name) ==
    CHOOSE f \in { Freqs[i] : i \in 1..Len(Freqs) } : getBucketNameByFreq(f) = name

\* log l falls into the bucket of the stored key sk = <<key, bucket name, timestamp>>
InBucket(l, sk) == getTimestampFromTimeZone(l.Timestamp, FreqOfBucket(sk[2])) = sk[3]

\* what log l owes to the burn-fee entry sk
BurnFeeOwed(l, sk) ==
    LET raw == TradeOf(l.UserAddress)
    IN  IF ~InBucket(l, sk) THEN 0
        ELSE (IF sk[1] = raw.ReserveAddress
              THEN BigToFloat(raw.BurnFee, TokenDecimal) ELSE 0)
             + (IF sk[1] = raw.ReserveAddress \o "_" \o raw.WalletAddress
                THEN BigToFloat(raw.WalletFee, TokenDecimal) ELSE 0)

\* what log l owes to field fld of the volume entry sk
VolumeOwed(l, sk, fld) ==
    LET raw == TradeOf(l.UserAddress)
        src == BigToFloat(raw.SrcAmount, TokenDecimal)
        dst == BigToFloat(raw.DestAmount, TokenDecimal)
        eth == IF raw.DestAddress = "eth" THEN dst
               ELSE IF raw.SrcAddress = "eth" THEN src ELSE 0
        part(asset, volume, ethVolume) ==
            IF sk[1] # asset THEN 0
            ELSE IF fld = "Volume" THEN volume
            ELSE IF fld = "ETHVolume" THEN ethVolume
            ELSE raw.FiatAmount
    IN  IF ~InBucket(l, sk) THEN 0
        ELSE part(raw.SrcAddress, src, eth) + part(raw.DestAddress, dst, eth)
             + part(l.UserAddress, src, dst)

\* the pipeline that owns the MetricStats key k = <<stat key, timezone, bucket>>
PipelineOfKey(k) ==
    IF k[1] = "trade_summary" THEN TRADE_SUMMARY_AGGREGATION
    ELSE IF k[1] \in { TradeOf(u).WalletAddress : u \in Users } THEN WALLET_AGGREGATION
    ELSE COUNTRY_AGGREGATION

\* log l falls into the MetricStats entry k
InMetric(l, k) ==
    /\ StatKey(PipelineOfKey(k), l) = k[1]
    /\ getTimestampFromTimeZone(l.Timestamp, TimezoneFreq(k[2])) = k[3]

\* what log l owes to field fld of the MetricStats entry k
MetricOwed(l, k, fld) ==
    LET raw == TradeOf(l.UserAddress)
        eth == IF raw.DestAddress = "eth" THEN BigToFloat(raw.DestAmount, TokenDecimal)
               ELSE IF raw.SrcAddress = "eth" THEN BigToFloat(raw.SrcAmount, TokenDecimal)
               ELSE 0
    IN  IF ~InMetric(l, k) THEN 0
        ELSE IF fld = "TradeCount" THEN 1
        ELSE IF fld = "ETHVolume" THEN eth
        ELSE IF fld = "USDVolume" THEN raw.FiatAmount
        ELSE BigToFloat(raw.BurnFee, TokenDecimal)

\* pipeline p has folded exactly the logs at or below its checkpoint, each once
FoldedOnce(p) ==
    \A l \in tradeLogs :
        IF l.Timestamp <= checkpoint[p]
        THEN Lookup(folded[p], l.id, 0) = 1
        ELSE l.id \notin DOMAIN folded[p]

BurnFeeExact ==
    \A sk \in DOMAIN burnFeeStat :
        burnFeeStat[sk] =
            SumFn([l \in Counted(BURNFEE_AGGREGATION) |-> BurnFeeOwed(l, sk)])

VolumeExact ==
    \A sk \in DOMAIN volumeStat :
        \A fld \in {"Volume", "ETHVolume", "USDAmount"} :
            volumeStat[sk][fld] =
                SumFn([l \in Counted(VOLUME_STAT_AGGREGATION) |-> VolumeOwed(l, sk, fld)])

MetricExact(p) ==
    \A k \in DOMAIN metricStat :
        PipelineOfKey(k) = p =>
            \A fld \in {"TradeCount", "ETHVolume", "USDVolume", "BurnFee"} :
                metricStat[k][fld] = SumFn([l \in Counted(p) |-> MetricOwed(l, k, fld)])

C2_CheckpointMonotone ==
    [][\A p \in Pipelines : checkpoint'[p] >= checkpoint[p]]_vars

\* C3: a pipeline (burn-fee, volume, trade-summary, wallet) whose checkpoint
\* has reached the timestamp of a persisted log has folded that log exactly once.
C3_NoLogMissed ==
    \A p \in AdditivePipelines \ {COUNTRY_AGGREGATION} :
        \A l \in tradeLogs :
            l.Timestamp <= checkpoint[p] => Lookup(folded[p], l.id, 0) = 1

\* the step is a run of pipeline p over logs all of which p had folded before
Replayed(p) ==
    /\ folded'[p] # folded[p]
    /\ DOMAIN folded'[p] = DOMAIN folded[p]

DayOf(t, z) == getTimestampFromTimeZone(t, TimezoneFreq(z))

\* C5: every trade_summary entry (Z, D) stores as uniqueAddr the number of
\* distinct addresses that have, among the logs the trade-summary pipeline has
\* processed, a trade in day D of offset Z.
C5_UniqueAddrExact ==
    \A k \in DOMAIN metricStat :
        k[1] = "trade_summary" =>
            metricStat[k].UniqueAddr =
                Cardinality({ u \in Users :
                    \E l \in FoldedLogs(TRADE_SUMMARY_AGGREGATION) :
                        l.UserAddress = u /\ DayOf(l.Timestamp, k[2]) = k[3] })

\* C6: every trade_summary entry stores as newUniqueAddresses at most the
\* number of distinct addresses whose first-ever trade falls into the entry.
C6_NewUniqueCountsAddresses ==
    \A k \in DOMAIN metricStat :
        k[1] = "trade_summary" =>
            metricStat[k].NewUniqueAddresses <=
                Cardinality({ u \in Users :
                    firstTradeEver[u] # 0 /\ DayOf(firstTradeEver[u], k[2]) = k[3] })

\* the timestamps of the trades of address u the user pipeline has processed
ProcessedTrades(u) ==
    { l.Timestamp : l \in { m \in FoldedLogs(USER_AGGREGATION) : m.UserAddress = u } }

\* C7: firstTradeEver[A] is the least timestamp of the trades of A the user
\* pipeline has processed (0: none), whatever the order of the map iteration.
C7_FirstTradeIsMin ==
    \A u \in Users :
        IF ProcessedTrades(u) = {} THEN firstTradeEver[u] = 0
        ELSE /\ firstTradeEver[u] \in ProcessedTrades(u)
             /\ \A t \in ProcessedTrades(u) : firstTradeEver[u] <= t

\* an address with two processed trades at different times keeps the earlier
C7_Witness ==
    \E u \in Users :
        /\ Cardinality(ProcessedTrades(u)) = 2
        /\ \E t \in ProcessedTrades(u) : firstTradeEver[u] < t

\* C8: in every stored MetricStats entry kycEd <= uniqueAddr.
C8_KycWithinUnique ==
    \A k \in DOMAIN metricStat : metricStat[k].KYCEd <= metricStat[k].UniqueAddr

\* an entry has counted a KYC'ed address, and an entry has counted a trade of a
\* KYC'ed user that is not the first of the day
C8_Witness ==
    /\ \E k \in DOMAIN metricStat : metricStat[k].KYCEd >= 1
    /\ \E k \in DOMAIN metricStat :
          /\ metricStat[k].TradeCount >= 2
          /\ metricStat[k].UniqueAddr = 1
          /\ metricStat[k].KYCEd = 0
          /\ \E l \in tradeLogs : getTradeInfo(l).kycEd /\ InMetric(l, k)

\* C9: the window of every request ends at least REORG_BLOCK_SAFE blocks below
\* the current block.
C9_TipWithheld ==
    request.result # "none" =>
        request.toBlock + REORG_BLOCK_SAFE <= request.current

\* C10: after a failed GetLogs the last fetched block is the block before the
\* window, so that the next request starts at the same block, and no log of the
\* window is persisted or waiting to be.
C10_ErrorKeepsLogBlock ==
    request.result = "error" =>
        /\ LoadLastBlock + 1 = request.fromBlock
        /\ pending = << >>
        /\ \A l \in tradeLogs :
              ~(request.fromBlock <= l.BlockNumber /\ l.BlockNumber <= request.toBlock)

\* a window failed after an earlier window had delivered logs
C10_Witness ==
    /\ request.result = "error"
    /\ tradeLogs # {}
    /\ logBlock = request.fromBlock - 1

\* the position of pipeline p in the order of RunTradeLogProcessor
Index(p) == CHOOSE i \in 1..Len(PipelineOrder) : PipelineOrder[i] = p

C12_StoreErrorKeepsCheckpoint ==
    [][storeErr' # NoError => checkpoint' = checkpoint]_vars

\* C13: truncating a bucket start again gives the same bucket start, for every
\* timepoint and every frequency.
C13_TruncateIdempotent ==
    truncPc = "twice" => bucketTs = truncTime

\* the UTC day of timepoint t starts at DayStart(t)
DayStart(t) == t - (t % ui64Day)

\* C14 (as the code has it): for a timepoint at 03:25:36 UTC and the frequency
\* utc7 the bucket start is 07:00 UTC of the same UTC day (for
\* t = 1,520,825,136,556,000,000 ns that is 1,520,838,000,000,000,000 ns).
C14_Utc7BucketStart ==
    ( /\ truncPc = "once"
      /\ truncFreq = TimezoneFreq(7)
      /\ truncTime % ui64Day = 3 * Hour + 25 * Minute + 1 )
        => bucketTs = DayStart(truncTime) + 7 * Hour

\* a timepoint at 03:25:36 has been truncated with utc7
C14_Witness ==
    /\ truncPc = "once"
    /\ truncFreq = TimezoneFreq(7)
    /\ truncTime % ui64Day = 3 * Hour + 25 * Minute + 1
    /\ bucketTs > truncTime

\* C14 as stated: for a timepoint at 03:25:36 UTC and the frequency utc7 the
\* bucket start is 23:00 UTC of the day before (for
\* t = 1,520,825,136,556,000,000 ns that is 1,520,809,200,000,000,000 ns).
C14_Utc7Example ==
    ( /\ truncPc = "once"
      /\ truncFreq = TimezoneFreq(7)
      /\ truncTime % ui64Day = 3 * Hour + 25 * Minute + 1 )
        => bucketTs = DayStart(truncTime) - Hour

\* C15: the bytes of the bucket start the fetcher computes are the bucket key
\* the storage computes, for every timepoint and every frequency string.
C15_SameTruncation ==
    truncPc # "input" => uint64ToBytes(bucketTs) = bucketKey

\* both sides have truncated a timepoint with a UTC offset other than 0, and
\* the bucket start is not the timepoint itself
C15_Witness ==
    /\ truncPc = "once"
    /\ ParseOffset(truncFreq) # 0
    /\ bytesToUint64(bucketKey) # truncTime
    /\ bytesToUint64(bucketKey) = bucketTs

\* C16: a run of a pipeline whose range [fromTs, toTs] holds no stored trade
\* log sets the pipeline's checkpoint to toTs when some stored log is later than
\* toTs, and leaves it as it is otherwise (also when there is no log at all).
C16_EmptyRangeCheckpoint ==
    [][\A i \in 1..Len(PipelineOrder) :
          LET p == PipelineOrder[i]
              range == GetTradeLogTimeRange(checkpoint[p], tickT')
          IN  ( /\ procPc = i
                /\ procPc' # procPc
                /\ \A l \in tradeLogs :
                      ~(range[1] <= l.Timestamp /\ l.Timestamp <= range[2]) )
                  => checkpoint'[p] =
                        IF \E l \in tradeLogs : l.Timestamp > range[2]
                        THEN range[2]
                        ELSE checkpoint[p]]_vars

\* a checkpoint stands at the end of an empty range: no log has its timestamp
\* and a later log is stored
C16_Witness ==
    \E p \in Pipelines :
        /\ checkpoint[p] # 0
        /\ \A l \in tradeLogs : l.Timestamp # checkpoint[p]
        /\ \E l \in tradeLogs : l.Timestamp > checkpoint[p]
        /\ \E l \in tradeLogs : l.Timestamp < checkpoint[p]

\* C17: the runs of the pipelines come in the order of RunTradeLogProcessor:
\* a step that writes for pipeline p is the run at p's position and hands over
\* to the next position, the tick time changes only with the user run, and the
\* first-trade maps are written only by the user run, the first of the tick.
C17_PipelineOrder ==
    [][ /\ procPc' # procPc => procPc' = (procPc % Len(PipelineOrder)) + 1
        /\ \A p \in Pipelines :
              (checkpoint'[p] # checkpoint[p] \/ folded'[p] # folded[p])
                  => procPc = Index(p) /\ procPc' # procPc
        /\ tickT' # tickT => procPc = Index(USER_AGGREGATION)
        /\ (firstTradeEver' # firstTradeEver \/ firstTradeInDay' # firstTradeInDay)
              => procPc = Index(USER_AGGREGATION) /\ procPc' = procPc + 1
        /\ burnFeeStat' # burnFeeStat => procPc = Index(BURNFEE_AGGREGATION)
        /\ volumeStat' # volumeStat => procPc = Index(VOLUME_STAT_AGGREGATION)
        /\ metricStat' # metricStat =>
              procPc \in { Index(TRADE_SUMMARY_AGGREGATION), Index(WALLET_AGGREGATION),
                           Index(COUNTRY_AGGREGATION) } ]_vars

\* the order is user, burn-fee, volume, trade-summary, wallet, country,
\* reserve-volume, and a second tick has started after a tick in which every
\* pipeline folded a log
C17_Witness ==
    /\ PipelineOrder = << USER_AGGREGATION, BURNFEE_AGGREGATION, VOLUME_STAT_AGGREGATION,
                          TRADE_SUMMARY_AGGREGATION, WALLET_AGGREGATION,
                          COUNTRY_AGGREGATION, RESERVE_VOLUME_AGGREGATION >>
    /\ procPc = 2
    /\ \A p \in AdditivePipelines : folded[p] # EmptyMap
    /\ Cardinality(DOMAIN folded[USER_AGGREGATION]) = 2
    /\ checkpoint[USER_AGGREGATION] > checkpoint[BURNFEE_AGGREGATION]

\* C18: after Stop every worker eventually terminates.
C18_WorkersTerminate ==
    stopped ~> (\A w \in Workers : worker[w] = "terminated")

\* --------------------------------------------------------------------------
\* Versioned buckets (stat_bolt.go GetNumberOfVersion, PruneOutdatedData).
\* A bucket is the set of its keys; the store orders keys bytewise.

\* number of distinct capture times a versioned key is drawn from
MaxVersion == 9

\* stat_bolt.go MAX_NUMBER_VERSION, scaled
MAX_NUMBER_VERSION == 3

\* bytes.Compare: -1, 0 or 1 in bytewise lexicographic order
RECURSIVE bytesCompare(_, _)
bytesCompare(a, b) ==
    IF a = << >> /\ b = << >> THEN 0
    ELSE IF a = << >> THEN -1
    ELSE IF b = << >> THEN 1
    ELSE IF a[1] < b[1] THEN -1
    ELSE IF a[1] > b[1] THEN 1
    ELSE bytesCompare(Tail(a), Tail(b))

\* Cursor.First: the smallest key of a non-empty bucket
First(bucket) ==
    CHOOSE k \in bucket : \A j \in bucket : bytesCompare(k, j) <= 0

GetNumberOfVersion(bucket) == Cardinality(bucket)

\* PruneOutdatedData stopping only when the count is not above the cap
RECURSIVE PruneOutdatedData_Gt(_)
PruneOutdatedData_Gt(bucket) ==
    IF GetNumberOfVersion(bucket) > MAX_NUMBER_VERSION /\ bucket # {}
    THEN PruneOutdatedData_Gt(bucket \ {First(bucket)})
    ELSE bucket

\* PruneOutdatedData: delete the first key while the count is at or above the
\* cap. An empty bucket ends the loop with an error and nothing deleted.
RECURSIVE PruneOutdatedData(_)
PruneOutdatedData(bucket) ==
    IF GetNumberOfVersion(bucket) >= MAX_NUMBER_VERSION /\ bucket # {}
    THEN PruneOutdatedData(bucket \ {First(bucket)})
    ELSE bucket

\* capture times of the versioned writes; their keys differ in every byte position
VersionTimes == {k * 100 + (k \div 3) * ByteMod * ByteMod : k \in 1..MaxVersion}

\* A versioned write: prune the bucket, then put the record under its
\* capture time as a big-endian word.
StoreVersion ==
    \E t \in VersionTimes :
        /\ versions' = PruneOutdatedData(versions) \cup {uint64ToBytes(t)}
        /\ deleted' = versions \ PruneOutdatedData(versions)
        /\ UNCHANGED << processorVars, userVars, readVars, truncVars, runnerVars, dailyBk, pruneCall,
                    rateVars, catVars >>

InitVersions == FetcherInit /\ UserIdle /\ TruncIdle /\ PruneIdle /\ RunnerIdle

NextVersions == StoreVersion

SpecVersions == InitVersions /\ [][NextVersions]_vars

\* C19: a versioned bucket never holds more than MAX_NUMBER_VERSION entries
\* after a prune followed by one write; the prune stops as soon as the count
\* is below MAX_NUMBER_VERSION, and every key it deleted is smaller (older)
\* than every key it kept.
C19_VersionCap ==
    [][/\ Cardinality(versions') <= MAX_NUMBER_VERSION
       /\ Cardinality(versions \ deleted') < MAX_NUMBER_VERSION
       /\ deleted' # {} => Cardinality(versions \ deleted') = MAX_NUMBER_VERSION - 1
       /\ \A d \in deleted' : \A k \in versions \ deleted' :
              bytesToUint64(d) < bytesToUint64(k)]_vars
C19_Witness ==
    /\ Cardinality(versions) = MAX_NUMBER_VERSION
    /\ deleted # {}

\* --------------------------------------------------------------------------
\* Daily buckets (stat_bolt.go isEalier, PruneDailyBucket). A bucket holds keys
\* "<day start as a word>_<address>"; the day start is that of the bucket's
\* timezone.

\* total number of keys in the daily buckets
MaxDailyKeys == 2
\* trades fall into the days FirstDailyDay..FirstDailyDay + MaxDailyDay, prunes
\* are called a week later
FirstDailyDay == 50
MaxDailyDay == 2

\* stat_bolt.go EXPIRED
EXPIRED == 7 * ui64Day

DailyPrefixes == {"daily_address", "daily_user"}

\* the byte "_" and an address in hexadecimal text
Underscore == 95
DailyAddr == << 97 >>

\* strings.Split(string(k), "_")[0]: the bytes before the first "_"
RECURSIVE SplitFirst(_)
SplitFirst(k) ==
    IF k = << >> THEN << >>
    ELSE IF k[1] = Underscore THEN << >>
    ELSE << k[1] >> \o SplitFirst(Tail(k))

\* isEalier with a strict comparison
isEalier_Strict(k, timestamp) == bytesCompare(SplitFirst(k), timestamp) < 0

\* isEalier
isEalier(k, timestamp) == bytesCompare(SplitFirst(k), timestamp) <= 0

\* the cursor loop of PruneDailyBucket: delete from the first key on while the
\* key is earlier than the expiry
RECURSIVE DeleteEarlier(_, _)
DeleteEarlier(bucket, expired) ==
    IF bucket = {} THEN {}
    ELSE IF isEalier(First(bucket), expired)
         THEN DeleteEarlier(bucket \ {First(bucket)}, expired)
         ELSE bucket

\* times of the trades and of the prune calls
DailyTimes ==
    { (FirstDailyDay + d) * ui64Day + r : d \in 0..MaxDailyDay, r \in {0, 12 * Hour} }
PruneTimes ==
    { (FirstDailyDay + 7 + d) * ui64Day + r : d \in 0..MaxDailyDay, r \in {3 * Hour + 25 * Minute + 1, ui64Day - 1} }

\* the number of keys in all daily buckets
DailyKeyCount ==
    Cardinality(UNION { { << b, k >> : k \in dailyBk[b] } : b \in DOMAIN dailyBk })

\* A trade at time t is recorded in a daily bucket of timezone z under the
\* start of its day.
StoreDailyKey ==
    \E t \in DailyTimes, z \in Timezones, p \in DailyPrefixes :
        /\ DailyKeyCount < MaxDailyKeys
        /\ dailyBk' = [dailyBk EXCEPT ![<< p, z >>] =
               @ \cup { getTimestampByFreq(t, TimezoneFreq(z)) \o << Underscore >> \o DailyAddr }]
        /\ pruneCall' = NoPrune
        /\ deleted' = {}
        /\ UNCHANGED << processorVars, userVars, readVars, truncVars, runnerVars, versions,
                    rateVars, catVars >>

\* BoltStatStorage.PruneDailyBucket
PruneDailyBucket ==
    \E timepoint \in PruneTimes, timezone \in Timezones :
        LET freq == TimezoneFreq(timezone)
            currentUintTimeStamp == bytesToUint64(getTimestampByFreq(timepoint, freq))
            expiredByteTimeStamp == uint64ToBytes(U64(currentUintTimeStamp - EXPIRED))
            dailyAddrBkname == << "daily_address", timezone >>
            dailyUserBkname == << "daily_user", timezone >>
        IN  /\ dailyBk' = [dailyBk EXCEPT
                   ![dailyAddrBkname] = DeleteEarlier(@, expiredByteTimeStamp),
                   ![dailyUserBkname] = DeleteEarlier(@, expiredByteTimeStamp)]
            /\ deleted' = (dailyBk[dailyAddrBkname] \cup dailyBk[dailyUserBkname])
                              \ (dailyBk'[dailyAddrBkname] \cup dailyBk'[dailyUserBkname])
            /\ pruneCall' = [timepoint |-> timepoint, timezone |-> timezone, done |-> TRUE]
            /\ UNCHANGED << processorVars, userVars, readVars, truncVars, runnerVars, versions,
                    rateVars, catVars >>

InitDaily ==
    /\ FetcherInit /\ UserIdle /\ TruncIdle /\ RunnerIdle
    /\ versions = {}
    /\ dailyBk = [b \in DailyPrefixes \X Timezones |-> {}]
    /\ pruneCall = NoPrune
    /\ deleted = {}

NextDaily == StoreDailyKey \/ PruneDailyBucket

SpecDaily == InitDaily /\ [][NextDaily]_vars

\* the timestamp of a daily key: its first word
KeyTime(k) == bytesToUint64(SubSeq(k, 1, WordBytes))

\* C20: when PruneDailyBucket(now, Z) has returned, the daily-address and the
\* daily-user bucket of Z hold no key whose timestamp is older than
\* now - EXPIRED.
C20_NoExpiredKey ==
    pruneCall.done =>
        \A p \in DailyPrefixes : \A k \in dailyBk[<< p, pruneCall.timezone >>] :
            KeyTime(k) + EXPIRED >= pruneCall.timepoint
C20_Witness ==
    /\ pruneCall.done
    /\ deleted # {}
    /\ \E p \in DailyPrefixes : dailyBk[<< p, pruneCall.timezone >>] # {}

\* --------------------------------------------------------------------------
\* User-identity store (UserStorage: UpdateUserAddresses, UpdateAddressCategory,
\* GetUserOfAddress, GetCategory, GetAddressesOfUser, GetPendingAddresses).

\* claim times are 1..MaxClaimTime, a claim lists at most MaxClaim addresses
MaxClaimTime == 2
MaxClaim == 2

\* what callers pass: addresses, emails and categories in mixed letter case
AddressTexts == {"0xa1", "0xA1", "0xa2", "0xa3"}
EmailTexts == {"V@k", "w@k"}
CategoryTexts == {"0x4A"}

\* the number of an address text, whatever its letter case
Lower(text) ==
    CASE text \in {"0xa1", "0xA1"} -> 1
      [] text = "0xa2" -> 2
      [] text = "0xa3" -> 3

\* strings.ToLower left out
ToLower_Same(s) == s

\* strings.ToLower
ToLower(s) ==
    CASE s = "0xA1" -> "0xa1"
      [] s = "V@k" -> "v@k"
      [] s = "0x4A" -> "0x4a"
      [] OTHER -> s

\* the store as one value
UserState == [cat |-> addressCategory, pend |-> pendingAddresses, conf |-> addressUser]

Remove(rel, a) == [x \in DOMAIN rel \ {a} |-> rel[x]]

\* the claims of a user are kept although the new list leaves them out
DropClaims_Keep(rel, user, listed) == rel

\* the entries of rel without those of user whose address is not listed
DropClaims(rel, user, listed) ==
    [a \in {x \in DOMAIN rel : rel[x].user # user \/ x \in listed} |-> rel[a]]

\* a claimed address goes to pending whether or not it has a category
ClaimOne_Pending(st, user, a, time) ==
    [st EXCEPT !.pend = Put(@, a, [user |-> user, time |-> time])]

\* one claimed address: confirmed at once when it has a category, else pending
ClaimOne(st, user, a, time) ==
    IF a \in DOMAIN st.cat
    THEN [st EXCEPT !.conf = Put(@, a, [user |-> user, time |-> time]),
                    !.pend = Remove(@, a)]
    ELSE [st EXCEPT !.pend = Put(@, a, [user |-> user, time |-> time])]

RECURSIVE ClaimEach(_, _, _, _, _)
ClaimEach(st, user, addresses, times, i) ==
    IF i > Len(addresses) THEN st
    ELSE ClaimEach(ClaimOne(st, user, addresses[i], times[i]), user, addresses, times, i + 1)

\* UserStorage.UpdateUserAddresses on the store st
ClaimAddresses(st, email, addrs, times) ==
    LET user == ToLower(email)
        addresses == [i \in 1..Len(addrs) |-> ToLower(addrs[i])]
        listed == { addresses[i] : i \in 1..Len(addrs) }
        dropped == [st EXCEPT !.pend = DropClaims(@, user, listed),
                              !.conf = DropClaims(@, user, listed)]
    IN  ClaimEach(dropped, user, addresses, times, 1)

\* a category log confirms the pending address under itself, at time 0
Confirm_Self(st, address) ==
    [st EXCEPT !.conf = Put(@, address, [user |-> address, time |-> 0]),
               !.pend = Remove(@, address)]

\* the address is confirmed: under the user it is pending for, else, when no
\* user holds it, under itself
Confirm(st, address) ==
    IF address \in DOMAIN st.pend
    THEN [st EXCEPT !.conf = Put(@, address, st.pend[address]),
                    !.pend = Remove(@, address)]
    ELSE IF address \in DOMAIN st.conf THEN st
    ELSE [st EXCEPT !.conf = Put(@, address, [user |-> address, time |-> 0])]

\* UserStorage.UpdateAddressCategory on the store st
CategoriseAddress(st, addr, cat) ==
    LET address == ToLower(addr)
    IN  Confirm([st EXCEPT !.cat = Put(@, address, ToLower(cat))], address)

\* UserStorage.GetCategory
GetCategory(addr) == Lookup(addressCategory, ToLower(addr), "")

\* UserStorage.GetUserOfAddress on the store
UserStorageGetUserOfAddress(addr) ==
    Lookup(addressUser, ToLower(addr), [user |-> ToLower(addr), time |-> 0])

\* UserStorage.GetAddressesOfUser: address -> time
GetAddressesOfUser(user) ==
    [a \in {x \in DOMAIN addressUser : addressUser[x].user = ToLower(user)} |->
         addressUser[a].time]

\* UserStorage.GetPendingAddresses
GetPendingAddresses == DOMAIN pendingAddresses

\* the address lists and time lists of a claim: no address twice, the
\* addresses in the order of their numbers
ClaimLists ==
    UNION { { [addrs |-> as, times |-> ts] :
                as \in { x \in [1..n -> AddressTexts] :
                           \A i, j \in 1..n : i < j => Lower(x[i]) < Lower(x[j]) },
                ts \in [1..n -> 1..MaxClaimTime] } : n \in 1..MaxClaim }

\* TestUpdateUserAddressesThenUpdateAddressCategory: two claims of one user,
\* then the category logs of the two addresses of the second claim, in either
\* order; the addresses by their numbers
PendingThenConfirmed ==
    { << << "V@k", << 1, 3 >>, << 1, 2 >> >>, << "V@k", << 1, 2 >>, << 1, 2 >> >>,
         << n >>, << 3 - n >> >> : n \in 1..2 }

\* a call as the scenario lists it
CallOf(call) ==
    IF call.op = "UpdateUserAddresses"
    THEN << call.email, [i \in 1..Len(call.addrs) |-> Lower(call.addrs[i])], call.times >>
    ELSE << Lower(call.addr) >>

\* the calls so far while they are the beginning of the scenario, else "off"
Follow(sofar, call) ==
    IF \E sc \in PendingThenConfirmed :
           /\ Len(sofar) < Len(sc)
           /\ SubSeq(sc, 1, Len(sofar) + 1) = Append(sofar, CallOf(call))
    THEN Append(sofar, CallOf(call))
    ELSE << "off" >>

UpdateUserAddresses ==
    \E email \in EmailTexts, L \in ClaimLists :
        LET st == ClaimAddresses(UserState, email, L.addrs, L.times)
        IN  /\ addressCategory' = st.cat
            /\ pendingAddresses' = st.pend
            /\ addressUser' = st.conf
            /\ lastCall' = [op |-> "UpdateUserAddresses", email |-> email,
                             addrs |-> L.addrs, times |-> L.times]
            /\ scenario' = Follow(scenario, lastCall')
            /\ UNCHANGED << processorVars, readVars, truncVars, pruneVars, runnerVars,
                    rateVars, catVars >>

\* RunCatLogProcessor hands every category log to the store
UpdateAddressCategory ==
    \E addr \in AddressTexts, cat \in CategoryTexts :
        LET st == CategoriseAddress(UserState, addr, cat)
        IN  /\ addressCategory' = st.cat
            /\ pendingAddresses' = st.pend
            /\ addressUser' = st.conf
            /\ lastCall' = [op |-> "UpdateAddressCategory", addr |-> addr, cat |-> cat]
            /\ scenario' = Follow(scenario, lastCall')
            /\ UNCHANGED << processorVars, readVars, truncVars, pruneVars, runnerVars,
                    rateVars, catVars >>

InitUser == FetcherInit /\ UserIdle /\ TruncIdle /\ PruneIdle /\ RunnerIdle

NextUser == UpdateUserAddresses \/ UpdateAddressCategory

SpecUser == InitUser /\ [][NextUser]_vars

\* the lower-case text of address number n, and the lower-case form of an email
AddressOf(n) == IF n = 1 THEN "0xa1" ELSE IF n = 2 THEN "0xa2" ELSE "0xa3"
UserOf(email) == IF email = "V@k" THEN "v@k" ELSE email
\* address number n has a category
Categorised(n) == AddressOf(n) \in DOMAIN addressCategory
\* the addresses of the last UpdateUserAddresses call, by number
Listed == { Lower(lastCall.addrs[i]) : i \in 1..Len(lastCall.addrs) }

\* C21: lookups do not depend on the letter case of the address, and the
\* category read back after UpdateAddressCategory is the lower-case form of the
\* category written, under every letter case of the address.
C21_CaseInsensitive ==
    /\ \A A \in AddressTexts :
           /\ UserStorageGetUserOfAddress(A) = UserStorageGetUserOfAddress(AddressOf(Lower(A)))
           /\ GetCategory(A) = GetCategory(AddressOf(Lower(A)))
    /\ lastCall.op = "UpdateAddressCategory" =>
           \A A \in AddressTexts : Lower(A) = Lower(lastCall.addr) => GetCategory(A) = "0x4a"
C21_Witness ==
    /\ lastCall.op = "UpdateAddressCategory"
    /\ lastCall.addr = "0xA1"
    /\ UserStorageGetUserOfAddress("0xa1").user = "v@k"

\* C22: when UpdateUserAddresses(email, L, T) has returned, the addresses
\* pending for that user are exactly the addresses of L without a category.
C22_ClaimReplaces ==
    lastCall.op = "UpdateUserAddresses" =>
        { a \in DOMAIN pendingAddresses : pendingAddresses[a].user = UserOf(lastCall.email) }
            = { AddressOf(n) : n \in { m \in Listed : ~Categorised(m) } }
C22_Witness ==
    /\ lastCall.op = "UpdateUserAddresses"
    /\ \E n \in Listed : Categorised(n)
    /\ \E n \in Listed : AddressOf(n) \in DOMAIN pendingAddresses
    /\ \E a \in DOMAIN addressUser : addressUser[a].user # UserOf(lastCall.email)

\* C23: no address is both pending and confirmed, an address is not pending
\* once its category log is processed, and at the end of PendingThenConfirmed
\* the user has exactly A1 -> t1 and A2 -> t2, each address answers with the
\* user and its time, and A3 is neither pending nor confirmed.
C23_PendingThenConfirmed ==
    /\ DOMAIN pendingAddresses \cap DOMAIN addressUser = {}
    /\ lastCall.op = "UpdateAddressCategory" =>
           /\ AddressOf(Lower(lastCall.addr)) \notin DOMAIN pendingAddresses
           /\ AddressOf(Lower(lastCall.addr)) \in DOMAIN addressUser
    /\ scenario \in PendingThenConfirmed =>
           /\ GetAddressesOfUser("v@k") = ("0xa1" :> 1) @@ ("0xa2" :> 2)
           /\ UserStorageGetUserOfAddress("0xa1") = [user |-> "v@k", time |-> 1]
           /\ UserStorageGetUserOfAddress("0xa2") = [user |-> "v@k", time |-> 2]
           /\ "0xa3" \notin DOMAIN pendingAddresses \cup DOMAIN addressUser
C23_Witness == scenario \in PendingThenConfirmed

\* C24: when UpdateUserAddresses has returned, every listed address that had
\* a category answers with the lower-case email and the claimed time; when all
\* listed addresses had one, the user's addresses are exactly the listed ones
\* in lower case with their times, as they are when the category logs come
\* after the claim.
C24_ClaimAfterCategory ==
    lastCall.op = "UpdateUserAddresses" =>
        /\ \A i \in 1..Len(lastCall.addrs) : Categorised(Lower(lastCall.addrs[i])) =>
               UserStorageGetUserOfAddress(lastCall.addrs[i])
                   = [user |-> UserOf(lastCall.email), time |-> lastCall.times[i]]
        /\ (\A n \in Listed : Categorised(n)) =>
               GetAddressesOfUser(UserOf(lastCall.email))
                   = [a \in { AddressOf(n) : n \in Listed } |->
                        lastCall.times[CHOOSE i \in 1..Len(lastCall.addrs) :
                                           AddressOf(Lower(lastCall.addrs[i])) = a]]
C24_Witness ==
    /\ lastCall.op = "UpdateUserAddresses"
    /\ lastCall.email = "V@k"
    /\ Len(lastCall.addrs) = 2
    /\ lastCall.addrs[1] = "0xA1"
    /\ \A n \in Listed : Categorised(n)
    /\ DOMAIN GetAddressesOfUser("v@k") = { "0xa1", AddressOf(Lower(lastCall.addrs[2])) }


\* ------------------------------------------------------------ ranged reads
\* bounds: the Set*Stat calls made, the bucket paths the reads may create, and
\* the latest time a read asks for
MaxWrites == 2
MaxCreated == 1
MaxReadTime == 6000

\* key := bytesToUint64(k) / 1000000 turns the nanoseconds of a bucket key
\* into milliseconds; one time unit of the model is 20 s, 20000 ms
MsPerUnit == 20000

\* the bucket path <<top-level bucket, sub-bucket>> of a stored entry: the
\* burn-fee and volume entries sit under <<key, frequency bucket>>, the metric
\* entries under <<key, "utc<N>">>, all in the one bolt database
PathOfFreq(sk) == << sk[1], << sk[2] >> >>
PathOfZone(sk) == << sk[1], TimezoneFreq(sk[2]) >>

\* the entries of the bucket at `path`: bucket key bytes, the aggregate the
\* value belongs to, the value
BucketAt(path) ==
    { [k |-> uint64ToBytes(sk[3]), kind |-> "burnfee", v |-> burnFeeStat[sk]] :
        sk \in { x \in DOMAIN burnFeeStat : PathOfFreq(x) = path } }
    \cup { [k |-> uint64ToBytes(sk[3]), kind |-> "volume", v |-> volumeStat[sk]] :
        sk \in { x \in DOMAIN volumeStat : PathOfFreq(x) = path } }
    \cup { [k |-> uint64ToBytes(sk[3]), kind |-> "metric", v |-> metricStat[sk]] :
        sk \in { x \in DOMAIN metricStat : PathOfZone(x) = path } }

\* json.Unmarshal into the value type of the read: a value of another
\* aggregate decodes without an error and leaves the fields of the read's
\* type at zero
Decode(kind, e) ==
    IF e.kind = kind THEN e.v
    ELSE IF kind = "burnfee" THEN 0
    ELSE IF kind = "volume" THEN ZeroVolume
    ELSE ZeroMetric

\* the body shared by the ranged reads: CreateBucketIfNotExists(key), the
\* sub-bucket, c.Seek(min) and the walk while bytes.Compare(k, max) <= 0
RangedRead(path, kind, fromTime, toTime) ==
    LET min == uint64ToBytes(fromTime)
        max == uint64ToBytes(toTime)
        hit == { e \in BucketAt(path) :
                   bytesCompare(e.k, min) >= 0 /\ bytesCompare(e.k, max) <= 0 }
        key(e) == bytesToUint64(e.k) * MsPerUnit
    IN  [ ms \in { key(e) : e \in hit } |->
            Decode(kind, CHOOSE e \in hit : key(e) = ms) ]

\* the sub-bucket of a frequency: getBucketNameByFreq for M, H, D and the
\* frequency itself for "utc<N>"
SubBucket(freq) ==
    IF freq[1] = "utc" THEN freq ELSE << getBucketNameByFreq(freq) >>

GetAssetVolume(fromTime, toTime, freq, asset) ==
    RangedRead(<< asset, SubBucket(freq) >>, "volume", fromTime, toTime)
GetUserVolume(fromTime, toTime, freq, userAddr) ==
    RangedRead(<< userAddr, SubBucket(freq) >>, "volume", fromTime, toTime)
GetBurnFee(fromTime, toTime, freq, reserveAddr) ==
    RangedRead(<< reserveAddr, SubBucket(freq) >>, "burnfee", fromTime, toTime)
GetWalletFee(fromTime, toTime, freq, reserveAddr, walletAddr) ==
    RangedRead(<< reserveAddr \o "_" \o walletAddr, SubBucket(freq) >>, "burnfee",
               fromTime, toTime)
GetWalletStats(fromTime, toTime, walletAddr, timezone) ==
    RangedRead(<< walletAddr, TimezoneFreq(timezone) >>, "metric", fromTime, toTime)
GetCountryStats(fromTime, toTime, country, timezone) ==
    RangedRead(<< country, TimezoneFreq(timezone) >>, "metric", fromTime, toTime)
GetTradeSummary(fromTime, toTime, timezone) ==
    RangedRead(<< "trade_summary", TimezoneFreq(timezone) >>, "metric", fromTime, toTime)

\* the keys, frequencies and time ranges the reads are called with
ReadKeys == {"r1", "u1", "w1", "US", "trade_summary", "0x00"}
ReadFreqs == { <<"M">>, <<"D">> }
ReadRanges ==
    { << 0, MaxReadTime >>, << BlockTime(3), BlockTime(3) >>,
      << BlockTime(4) + 1, MaxReadTime >>, << MaxReadTime, 0 >> }

\* the calls of the seven reads
Reads ==
    { [fn |-> f, key |-> k, freq |-> q, fromTime |-> r[1], toTime |-> r[2]] :
        f \in {"GetAssetVolume", "GetUserVolume", "GetBurnFee", "GetWalletFee"},
        k \in ReadKeys, q \in ReadFreqs, r \in ReadRanges }
    \cup { [fn |-> f, key |-> k, freq |-> TimezoneFreq(z), fromTime |-> r[1],
            toTime |-> r[2]] :
        f \in {"GetWalletStats", "GetCountryStats"},
        k \in ReadKeys, z \in Timezones, r \in ReadRanges }
    \cup { [fn |-> "GetTradeSummary", key |-> "trade_summary", freq |-> TimezoneFreq(z),
            fromTime |-> r[1], toTime |-> r[2]] :
        z \in Timezones, r \in ReadRanges }

\* the bucket path a read creates when it is missing
ReadPath(r) ==
    IF r.fn = "GetWalletFee" THEN << "r1" \o "_" \o r.key, SubBucket(r.freq) >>
    ELSE << r.key, SubBucket(r.freq) >>

\* what the read returns
ReadResult(r) ==
    IF r.fn = "GetAssetVolume" THEN GetAssetVolume(r.fromTime, r.toTime, r.freq, r.key)
    ELSE IF r.fn = "GetUserVolume" THEN GetUserVolume(r.fromTime, r.toTime, r.freq, r.key)
    ELSE IF r.fn = "GetBurnFee" THEN GetBurnFee(r.fromTime, r.toTime, r.freq, r.key)
    ELSE IF r.fn = "GetWalletFee"
    THEN GetWalletFee(r.fromTime, r.toTime, r.freq, "r1", r.key)
    ELSE IF r.fn = "GetWalletStats"
    THEN GetWalletStats(r.fromTime, r.toTime, r.key, r.freq[2])
    ELSE IF r.fn = "GetCountryStats"
    THEN GetCountryStats(r.fromTime, r.toTime, r.key, r.freq[2])
    ELSE GetTradeSummary(r.fromTime, r.toTime, r.freq[2])

\* the stored buckets of the aggregate the read is about, under the read's
\* key and sub-bucket, with fromTime <= k <= toTime, under k in milliseconds
StoredInRange(r) ==
    LET path == ReadPath(r)
        in(t) == r.fromTime <= t /\ t <= r.toTime
        own(store, keys) == [ ms \in { sk[3] * MsPerUnit : sk \in keys } |->
                                store[CHOOSE sk \in keys : sk[3] * MsPerUnit = ms] ]
    IN  IF r.fn \in {"GetBurnFee", "GetWalletFee"}
        THEN own(burnFeeStat,
                 { sk \in DOMAIN burnFeeStat : PathOfFreq(sk) = path /\ in(sk[3]) })
        ELSE IF r.fn \in {"GetAssetVolume", "GetUserVolume"}
        THEN own(volumeStat,
                 { sk \in DOMAIN volumeStat : PathOfFreq(sk) = path /\ in(sk[3]) })
        ELSE LET p == IF r.fn = "GetWalletStats" THEN WALLET_AGGREGATION
                      ELSE IF r.fn = "GetCountryStats" THEN COUNTRY_AGGREGATION
                      ELSE TRADE_SUMMARY_AGGREGATION
             IN  own(metricStat,
                     { sk \in DOMAIN metricStat :
                         PathOfZone(sk) = path /\ PipelineOfKey(sk) = p /\ in(sk[3]) })

\* the trades whose aggregates are stored
ReadTrades == { TradeLog(1, 3, "u1"), TradeLog(2, 4, "u1"), TradeLog(3, 4, "u2") }

\* SetBurnFeeStat / SetVolumeStat / SetTradeSummary / SetWalletStat /
\* SetCountryStat called with the aggregate of one trade
SetStat ==
    /\ nwrites < MaxWrites
    /\ nwrites' = nwrites + 1
    /\ \E trade \in ReadTrades :
         \E p \in { BURNFEE_AGGREGATION, VOLUME_STAT_AGGREGATION, TRADE_SUMMARY_AGGREGATION,
                    WALLET_AGGREGATION, COUNTRY_AGGREGATION } :
            /\ burnFeeStat' =
                   IF p = BURNFEE_AGGREGATION
                   THEN SetBurnFeeStat(burnFeeStat, aggregateBurnFeeStats(trade, EmptyMap))
                   ELSE burnFeeStat
            /\ volumeStat' =
                   IF p = VOLUME_STAT_AGGREGATION
                   THEN SetVolumeStat(volumeStat, aggregateVolumeStats(trade, EmptyMap))
                   ELSE volumeStat
            /\ metricStat' =
                   IF p \in { TRADE_SUMMARY_AGGREGATION, WALLET_AGGREGATION,
                              COUNTRY_AGGREGATION }
                   THEN SetMetricStat(metricStat,
                                      aggregateMetric(p, trade, EmptyMap, firstTradeEver))
                   ELSE metricStat
    /\ UNCHANGED << fetcherVars, procPc, tickT, checkpoint, firstTradeEver, firstTradeInDay,
                    countries, walletAddrs, nfail, folded, hazard, storeErr, createdBk, lastRun,
                    truncVars, pruneVars, runnerVars, userVars,
                    rateVars, catVars >>

\* one of the ranged reads: db.Update creates the bucket path when it is
\* missing and writes nothing else
ReadStat ==
    /\ \E r \in Reads :
         /\ createdBk' = createdBk \cup { ReadPath(r) }
         /\ Cardinality(createdBk') <= MaxCreated
    /\ UNCHANGED << processorVars, nwrites, lastRun, truncVars, pruneVars, runnerVars, userVars,
                    rateVars, catVars >>

InitRead == FetcherInit /\ UserIdle /\ TruncIdle /\ PruneIdle /\ RunnerIdle

NextRead == SetStat \/ ReadStat

SpecRead == InitRead /\ [][NextRead]_vars

\* C26: every ranged read returns exactly the stored buckets of its aggregate
\* and key with fromTime <= k <= toTime, under the key k in milliseconds, and
\* the empty map for an unknown key or an empty range.
C26_RangedReads == \A r \in Reads : ReadResult(r) = StoredInRange(r)


\* ------------------------------------------------ a failing log in a batch
\* the trade logs FetchLogs persisted from the blocks 3 and 4
StoredLogs == { TradeLog(1, 3, "u1"), TradeLog(2, 4, "u2") }

\* the fetcher after these logs were persisted and before any pipeline ran
FetcherStored ==
    /\ currentBlock = 11
    /\ logBlock = 4
    /\ tradeLogs = StoredLogs
    /\ pending = << >>
    /\ nlogs = 2
    /\ request = [fromBlock |-> 3, toBlock |-> 4, current |-> 11, result |-> "logs"]
    /\ procPc = 1
    /\ tickT = 0
    /\ checkpoint = [p \in Pipelines |-> 0]
    /\ firstTradeEver = [u \in Users |-> 0]
    /\ firstTradeInDay = EmptyMap
    /\ burnFeeStat = EmptyMap
    /\ volumeStat = EmptyMap
    /\ metricStat = EmptyMap
    /\ countries = {}
    /\ walletAddrs = {}
    /\ nfail = 0
    /\ folded = [p \in Pipelines |-> EmptyMap]
    /\ hazard = [p \in Pipelines |-> FALSE]
    /\ storeErr = NoError

\* the pipelines that write an aggregate
AggPipelines ==
    { BURNFEE_AGGREGATION, VOLUME_STAT_AGGREGATION, TRADE_SUMMARY_AGGREGATION,
      WALLET_AGGREGATION, COUNTRY_AGGREGATION }

NoFailure == [how |-> "none", id |-> 0]

\* what may fail for one log of the batch: SetCountry in the country pipeline,
\* GetUserOfAddress inside getTradeInfo in every pipeline
Failures(p, batch) ==
    {NoFailure}
    \cup { [how |-> "GetUserOfAddress", id |-> l.id] : l \in batch }
    \cup { [how |-> "SetCountry", id |-> l.id] :
             l \in { m \in batch : p = COUNTRY_AGGREGATION } }

\* getTradeInfo lines 715-726 with the outcome of GetUserOfAddress: on an
\* error the amounts and the burn fee are returned with kycEd = false
getTradeInfo_Lookup(trade, failed) ==
    LET info == getTradeInfo(trade)
    IN  [ srcAmount |-> info.srcAmount, destAmount |-> info.destAmount,
          ethAmount |-> info.ethAmount, burnFee |-> info.burnFee,
          kycEd |-> IF failed THEN FALSE ELSE info.kycEd, err |-> failed ]

\* aggregateBurnFeeStats / aggregateVolumeStats / aggregateTradeSumary /
\* aggregateWalletStats / aggregateCountryStats for one log: the error of
\* getTradeInfo is dropped ("_"), a SetCountry error returns before the fold
aggregateLog(p, trade, stats, f) ==
    LET info == getTradeInfo_Lookup(trade, f.how = "GetUserOfAddress" /\ f.id = trade.id)
    IN  IF p = COUNTRY_AGGREGATION /\ f.how = "SetCountry" /\ f.id = trade.id THEN stats
        ELSE IF p = BURNFEE_AGGREGATION THEN aggregateBurnFeeStats(trade, stats)
        ELSE IF p = VOLUME_STAT_AGGREGATION THEN aggregateVolumeStats(trade, stats)
        ELSE aggregateMetricStat(trade, StatKey(p, trade), info.ethAmount, info.burnFee,
                                 stats, info.kycEd, firstTradeEver)

RECURSIVE FoldLogs(_, _, _, _)
FoldLogs(p, trades, stats, f) ==
    IF trades = << >> THEN stats
    ELSE FoldLogs(p, Tail(trades), aggregateLog(p, Head(trades), stats, f), f)

\* the stored aggregate of pipeline p
StatOf(p) ==
    IF p = BURNFEE_AGGREGATION THEN burnFeeStat
    ELSE IF p = VOLUME_STAT_AGGREGATION THEN volumeStat
    ELSE [ k \in { x \in DOMAIN metricStat : PipelineOfKey(x) = p } |-> metricStat[k] ]

\* Set*Stat of pipeline p
SetStatOf(p, store, stats) ==
    IF p = BURNFEE_AGGREGATION THEN SetBurnFeeStat(store, stats)
    ELSE IF p = VOLUME_STAT_AGGREGATION THEN SetVolumeStat(store, stats)
    ELSE SetMetricStat(store, stats)

\* One run of an aggregating pipeline in which the processing of at most one
\* log of the batch fails.
RunFailing ==
    /\ nwrites < MaxWrites
    /\ nwrites' = nwrites + 1
    /\ \E t \in TickTimes, p \in AggPipelines :
         LET batch == Batch(p, t)
         IN  \E f \in Failures(p, batch) :
               LET done == { l \in batch : ~(f.how = "SetCountry" /\ f.id = l.id) }
                   stats == FoldLogs(p, BatchSeq(batch), EmptyMap, f)
               IN  /\ burnFeeStat' = IF p = BURNFEE_AGGREGATION
                                     THEN SetBurnFeeStat(burnFeeStat, stats)
                                     ELSE burnFeeStat
                   /\ volumeStat' = IF p = VOLUME_STAT_AGGREGATION
                                    THEN SetVolumeStat(volumeStat, stats)
                                    ELSE volumeStat
                   /\ metricStat' = IF p \in { BURNFEE_AGGREGATION, VOLUME_STAT_AGGREGATION }
                                    THEN metricStat
                                    ELSE SetMetricStat(metricStat, stats)
                   /\ countries' = IF p = COUNTRY_AGGREGATION
                                   THEN countries \cup
                                        { TradeOf(l.UserAddress).Country : l \in done }
                                   ELSE countries
                   /\ walletAddrs' =
                          IF p = WALLET_AGGREGATION
                          THEN walletAddrs \cup
                               { TradeOf(l.UserAddress).WalletAddress : l \in
                                   { m \in batch :
                                       checkWalletAddress(TradeOf(m.UserAddress).WalletAddress) } }
                          ELSE walletAddrs
                   /\ checkpoint' = RunCheckpoint(p, t, batch, LastOf(done))
                   /\ folded' = Fold(p, done)
                   /\ hazard' = [hazard EXCEPT ![p] = @ \/ f.how = "SetCountry"]
                   /\ nfail' = IF f.how = "SetCountry" THEN nfail + 1 ELSE nfail
                   /\ lastRun' = [p |-> p, batch |-> batch, failure |-> f,
                                  before |-> StatOf(p)]
    /\ storeErr' = NoError
    /\ UNCHANGED << fetcherVars, procPc, tickT, firstTradeEver, firstTradeInDay, createdBk,
                    truncVars, pruneVars, runnerVars, userVars,
                    rateVars, catVars >>

InitFailing == FetcherStored /\ UserIdle /\ TruncIdle /\ PruneIdle /\ RunnerIdle

NextFailing == RunFailing

SpecFailing == InitFailing /\ [][NextFailing]_vars

\* the last run had a batch with a failing log
FailedInBatch == lastRun.p # "none" /\ lastRun.failure.how # "none"

\* the aggregate of pipeline p after the logs of the last batch other than the
\* failing one were added to what was stored before
WithoutFailed ==
    LET p == lastRun.p
        rest == { l \in lastRun.batch : l.id # lastRun.failure.id }
    IN  SetStatOf(p, lastRun.before, FoldLogs(p, BatchSeq(rest), EmptyMap, NoFailure))

\* C27: a log whose processing failed in a batch (SetCountry in the country
\* pipeline, or the lookup of getTradeInfo) is in no bucket of that pipeline,
\* and every other log of the batch is aggregated.
C27_FailedLogSkipped == FailedInBatch => StatOf(lastRun.p) = WithoutFailed


\* ------------------------------------------------------------- geolocation
\* what the geolocation service and the IP-to-country map may answer for one
\* transaction: the HTTP request fails, the body cannot be read or parsed, or
\* the response carries success, ip and country; the IP resolves or does not
GeoResponses ==
    { [http |-> "error"], [http |-> "ok", body |-> "unreadable"],
      [http |-> "ok", body |-> "malformed"] }
    \cup { [http |-> "ok", body |-> "ok", success |-> s, ip |-> "1.2.3.4", country |-> c,
            ipCountry |-> r] :
             s \in BOOLEAN, c \in {"", "US"}, r \in {"error", "VN"} }

GeoError == [ip |-> "", country |-> "", err |-> TRUE]

\* the geolocation lookup failed in one of the ways of GetTradeGeo
GeoFailed(o) ==
    \/ o.http = "error"
    \/ o.body # "ok"
    \/ ~o.success
    \/ (o.country = "" /\ o.ipCountry = "error")

\* Fetcher.GetTradeGeo for the transaction the service answers with o
GetTradeGeo(o) ==
    IF o.http = "error" THEN GeoError
    ELSE IF o.body = "unreadable" THEN GeoError
    ELSE IF o.body = "malformed" THEN GeoError
    ELSE IF o.success
    THEN IF o.country # "" THEN [ip |-> o.ip, country |-> o.country, err |-> FALSE]
         ELSE IF o.ipCountry = "error" THEN GeoError
         ELSE [ip |-> o.ip, country |-> o.ipCountry, err |-> FALSE]
    ELSE [ip |-> "", country |-> "unknown", err |-> FALSE]

\* FetchLogs lines 621-632: the next trade log of the window gets the IP and
\* the country GetTradeGeo returned, whatever its error, and is persisted;
\* after the last one RunLogFetcher persists the block number.
StoreTradeLogGeo ==
    /\ pending # << >>
    /\ \E o \in GeoResponses :
         LET il == Head(pending)
             geo == GetTradeGeo(o)
             l == [id |-> il.id, UserAddress |-> il.UserAddress,
                   BlockNumber |-> il.BlockNumber, Timestamp |-> il.Timestamp,
                   IP |-> geo.ip, Country |-> geo.country]
             all == { pending[i].BlockNumber : i \in 1..Len(pending) }
             max == CHOOSE b \in all : \A c \in all : b >= c
         IN  /\ tradeLogs' = tradeLogs \cup {l}
             /\ pending' = Tail(pending)
             /\ hazard' = [p \in Pipelines |-> hazard[p] \/ l.Timestamp <= checkpoint[p]]
             /\ logBlock' = IF Len(pending) = 1
                            THEN NextLogBlock(FALSE, max, LoadLastBlock, request.toBlock)
                            ELSE logBlock
             /\ lastRun' = [p |-> "FetchLogs", id |-> l.id, response |-> o]
    /\ UNCHANGED << currentBlock, nlogs, request, procPc, tickT, checkpoint, statVars, nfail,
                    folded, storeErr, createdBk, nwrites, truncVars, pruneVars, runnerVars,
                    userVars,
                    rateVars, catVars >>

NextGeo ==
    \/ FetchCurrentBlock
    \/ LogTickNoLogs
    \/ LogTickLogs
    \/ StoreTradeLogGeo

SpecGeo == Init /\ [][NextGeo]_vars

\* C28: a trade log whose geolocation lookup failed is persisted with the
\* country "unknown", and no persisted trade log has an empty country.
C28_CountryUnknown ==
    /\ \A l \in tradeLogs : l.Country # ""
    /\ (lastRun.p = "FetchLogs" /\ GeoFailed(lastRun.response)) =>
           \A l \in tradeLogs : l.id = lastRun.id => l.Country = "unknown"


\* --------------------------------------------------------------- kycEd
\* the answers of userStorage.GetUserOfAddress and the trades getTradeInfo is
\* called with
KycEmails == {"", "u1", "v@example"}
KycRegTimes == {0, 100, 110}
KycTimes == {90, 100, 110}

\* kycEd with a trade at the registration time counted
getTradeInfo_kycEd_AtReg(email, regTime, failed, userAddr, timestamp) ==
    IF failed THEN FALSE
    ELSE email # "" /\ email # userAddr /\ timestamp >= regTime

\* getTradeInfo lines 716-724: kycEd from the outcome (email, regTime, err) of
\* GetUserOfAddress(userAddr) and the timestamp of the trade
getTradeInfo_kycEd(email, regTime, failed, userAddr, timestamp) ==
    IF failed THEN FALSE
    ELSE email # "" /\ email # userAddr /\ timestamp > regTime

\* one call of getTradeInfo, with the answer of the user-identity store
GetTradeInfoCall ==
    /\ \E userAddr \in Users, timestamp \in KycTimes, email \in KycEmails,
          regTime \in KycRegTimes, failed \in BOOLEAN :
         lastCall' = [op |-> "getTradeInfo", userAddr |-> userAddr,
                      timestamp |-> timestamp, email |-> email, regTime |-> regTime,
                      failed |-> failed,
                      kycEd |-> getTradeInfo_kycEd(email, regTime, failed, userAddr,
                                                   timestamp)]
    /\ UNCHANGED << processorVars, readVars, truncVars, pruneVars, runnerVars,
                    addressCategory, pendingAddresses, addressUser, scenario,
                    rateVars, catVars >>

NextKyc == GetTradeInfoCall

SpecKyc == Init /\ [][NextKyc]_vars

\* C29: kycEd holds iff the lookup succeeded with an email that is non-empty
\* and differs from the address and the trade is strictly later than the
\* registration time; with registration time 100 a trade at 90 or 100 is not
\* KYC-ed and a trade at 110 is, and a failed lookup gives kycEd = false.
C29_KycEd ==
    lastCall.op = "getTradeInfo" =>
        /\ lastCall.kycEd <=>
               /\ ~lastCall.failed
               /\ lastCall.email # ""
               /\ lastCall.email # lastCall.userAddr
               /\ lastCall.timestamp > lastCall.regTime
        /\ (lastCall.email = "v@example" /\ lastCall.regTime = 100 /\ ~lastCall.failed) =>
               /\ lastCall.timestamp \in {90, 100} => ~lastCall.kycEd
               /\ lastCall.timestamp = 110 => lastCall.kycEd
        /\ lastCall.failed => ~lastCall.kycEd

\* a trade at 110 of a user registered at 100 was found KYC-ed
C29_Witness ==
    /\ lastCall.op = "getTradeInfo"
    /\ lastCall.email = "v@example" /\ lastCall.regTime = 100 /\ ~lastCall.failed
    /\ lastCall.timestamp = 110
    /\ lastCall.kycEd


\* ------------------------------------------- reserve-volume checkpoint
\* the step is a run of RunReserveVolumeAggregation whose range holds a log
ReserveVolumeRun ==
    /\ procPc = Len(PipelineOrder)
    /\ procPc' = 1
    /\ Batch(RESERVE_VOLUME_AGGREGATION, tickT) # {}

\* C30: after a run of the reserve-volume pipeline whose range contains at
\* least one trade log, its checkpoint has moved forward to the largest
\* timestamp of those logs.
C30_ReserveVolumeAdvances ==
    [][ReserveVolumeRun =>
          /\ checkpoint'[RESERVE_VOLUME_AGGREGATION] > checkpoint[RESERVE_VOLUME_AGGREGATION]
          /\ checkpoint'[RESERVE_VOLUME_AGGREGATION] =
                 LastOf(Batch(RESERVE_VOLUME_AGGREGATION, tickT))]_vars


\* ------------------------------------------------- log-block checkpoint
\* the live edge of the request: the newest block a window may end at
LiveEdge == U64(request.current - REORG_BLOCK_SAFE)

\* the largest block number among the stored logs of the request's window
MaxLogBlockOfWindow ==
    LET bs == { l.BlockNumber : l \in { m \in tradeLogs :
                  request.fromBlock <= m.BlockNumber /\ m.BlockNumber <= request.toBlock } }
    IN  CHOOSE b \in bs : \A c \in bs : b >= c

\* C31: after a successful GetLogs for [lastBlock+1, toBlock] the log-block
\* checkpoint is the largest block number of the returned logs; with no log
\* returned it is toBlock when the window ends below the live edge
\* currentBlock - 7, and stays at lastBlock when the window ends at the live edge.
C31_LogBlockCheckpoint ==
    /\ (request.result = "logs" /\ pending = << >>) => logBlock = MaxLogBlockOfWindow
    /\ request.result = "empty" =>
           logBlock = IF request.toBlock < LiveEdge THEN request.toBlock
                      ELSE request.fromBlock - 1


\* --------------------------------------------------- the range of a run
\* the checkpoints a run may read and the tick times it may be given
RangeCheckpoints == {0, 1, 2699, 2700, 3000, 3600, 5000, 7020, 9000}
RangeTimes == {2700, 3000, 3600, 5000, 7019, 7020, 9000}

Min(a, b) == IF a < b THEN a ELSE b

\* one call of GetTradeLogTimeRange(fromTime, t) at the start of a pipeline run
GetTradeLogTimeRangeCall ==
    /\ \E fromTime \in RangeCheckpoints, t \in RangeTimes :
         lastCall' = [op |-> "GetTradeLogTimeRange", fromTime |-> fromTime, t |-> t,
                      range |-> GetTradeLogTimeRange(fromTime, t)]
    /\ UNCHANGED << processorVars, readVars, truncVars, pruneVars, runnerVars,
                    addressCategory, pendingAddresses, addressUser, scenario,
                    rateVars, catVars >>

\* the log storage is empty or holds the logs of blocks 3 and 4
InitRange == (FetcherInit \/ FetcherStored) /\ UserIdle /\ TruncIdle /\ PruneIdle /\ RunnerIdle

NextRange == GetTradeLogTimeRangeCall

SpecRange == InitRange /\ [][NextRange]_vars

\* C32: for the checkpoint c and the tick time now a run queries
\* [fromTs, toTs] with fromTs = c + 1 (or the first log's timestamp - 1 when
\* c = 0) and toTs = min(now, fromTs + MaxRange); so toTs <= now and
\* toTs - fromTs <= MaxRange, also when now < fromTs.
C32_RangeBounded ==
    lastCall.op = "GetTradeLogTimeRange" =>
        LET c == lastCall.fromTime
            now == lastCall.t
            fromTs == IF c = 0 /\ tradeLogs # {} THEN GetFirstTradeLog.Timestamp - 1
                      ELSE c + 1
            toTs == lastCall.range[2]
        IN  /\ lastCall.range[1] = fromTs
            /\ toTs = Min(now, fromTs + MaxRange)
            /\ toTs <= now
            /\ toTs - fromTs <= MaxRange


\* ------------------------------------------------------ request window
\* chain heights far above the deploy block, reported by the block fetcher
\* before the log fetcher's first tick
FarHeights == {1450, 2000, 3000}

FetcherFar ==
    /\ currentBlock \in FarHeights
    /\ logBlock = 0
    /\ tradeLogs = {}
    /\ pending = << >>
    /\ nlogs = 0
    /\ request = NoRequest
    /\ procPc = 1
    /\ tickT = 0
    /\ checkpoint = [p \in Pipelines |-> 0]
    /\ firstTradeEver = [u \in Users |-> 0]
    /\ firstTradeInDay = EmptyMap
    /\ burnFeeStat = EmptyMap
    /\ volumeStat = EmptyMap
    /\ metricStat = EmptyMap
    /\ countries = {}
    /\ walletAddrs = {}
    /\ nfail = 0
    /\ folded = [p \in Pipelines |-> EmptyMap]
    /\ hazard = [p \in Pipelines |-> FALSE]
    /\ storeErr = NoError

InitWindow == FetcherFar /\ UserIdle /\ TruncIdle /\ PruneIdle /\ RunnerIdle

NextWindow ==
    \/ LogTickNoLogs
    \/ LogTickLogs
    \/ StoreTradeLog

SpecWindow == InitWindow /\ [][NextWindow]_vars

\* C33: every GetLogs request [fromBlock, toBlock] of the log fetcher covers
\* at most 1440 blocks.
C33_WindowSize ==
    request.result # "none" => request.toBlock - request.fromBlock + 1 <= LogWindow


\* ------------------------------------------------------- valid wallets
\* C34: the wallet pipeline aggregates only under valid wallet addresses
\* (value >= 2^128): no wallet MetricStats bucket is stored under an invalid
\* address and no invalid address is in the wallet-address set.
C34_ValidWalletsOnly ==
    /\ \A k \in DOMAIN metricStat :
           PipelineOfKey(k) = WALLET_AGGREGATION => checkWalletAddress(k[1])
    /\ \A wallet \in walletAddrs : checkWalletAddress(wallet)


\* ----------------------------------------------------- volume per key
\* what log l adds to field fld of the volume entry sk when the ETH volume
\* under the user key is the trade's ethAmount
VolumeClaimed(l, sk, fld) ==
    LET raw == TradeOf(l.UserAddress)
        info == getTradeInfo(l)
        part(asset, volume) ==
            IF sk[1] # asset THEN 0
            ELSE IF fld = "Volume" THEN volume
            ELSE IF fld = "ETHVolume" THEN info.ethAmount
            ELSE raw.FiatAmount
    IN  IF ~InBucket(l, sk) THEN 0
        ELSE part(raw.SrcAddress, info.srcAmount) + part(raw.DestAddress, info.destAmount)
             + part(l.UserAddress, info.srcAmount)

\* the volume entries of log l: its three keys at each of M, H and D
VolumeKeys(l) ==
    { << key, getBucketNameByFreq(Freqs[i]), getTimestampFromTimeZone(l.Timestamp, Freqs[i]) >> :
        key \in { TradeOf(l.UserAddress).SrcAddress, TradeOf(l.UserAddress).DestAddress,
                  l.UserAddress },
        i \in 1..Len(Freqs) }

\* C35: for each trade the volume pipeline adds, at each of M, H and D, one
\* entry under srcAddr, dstAddr and userAddr; under each of the three keys it
\* adds the trade's ethAmount to ethVolume and its fiatAmount to usdAmount,
\* and to volume srcAmount (srcAddr, userAddr) or destAmount (dstAddr).
C35_VolumePerKey ==
    ~hazard[VOLUME_STAT_AGGREGATION] =>
        /\ \A l \in Counted(VOLUME_STAT_AGGREGATION) : VolumeKeys(l) \subseteq DOMAIN volumeStat
        /\ \A sk \in DOMAIN volumeStat :
             \A fld \in {"Volume", "ETHVolume", "USDAmount"} :
                 volumeStat[sk][fld] =
                     SumFn([l \in Counted(VOLUME_STAT_AGGREGATION) |->
                              VolumeClaimed(l, sk, fld)])


\* -------------------------------------------------- reserve-rate fetcher
\* bound: the rate ticks followed
MaxRateTicks == 2

\* append(self.thirdPartyReserves, self.reserveAddress): two third-party
\* reserves, one of them configured with the address of the reserve itself
supportedReserves == << "r2", "r1", "r1" >>

\* the rates a failed blockchain.GetReserveRates leaves in `rates`
NoRates == [fromBlock |-> 0, toBlock |-> 0, ok |-> FALSE]

\* the blocks a worker asks the rates for when it reads self.currentBlock itself
GetReserveRates_Live(block, reserveAddr) ==
    [reserve |-> reserveAddr, fromBlock |-> U64(currentBlock - 1), toBlock |-> currentBlock]

\* Fetcher.GetReserveRates: the call blockchain.GetReserveRates(currentBlock-1,
\* currentBlock, reserveAddr, tokens) with the block passed by FetchReserveRates
GetReserveRates(block, reserveAddr) ==
    [reserve |-> reserveAddr, fromBlock |-> U64(block - 1), toBlock |-> block]

\* FetchReserveRates up to wg.Wait(): block := self.currentBlock and one
\* goroutine per supported reserve
RateTick ==
    /\ ratePc = "idle"
    /\ rateTicks < MaxRateTicks
    /\ rateTicks' = rateTicks + 1
    /\ ratePc' = "workers"
    /\ rateBlock' = currentBlock
    /\ rateWorkers' = [i \in 1..Len(supportedReserves) |-> "running"]
    /\ rateData' = [a \in {} |-> 0]
    /\ rateCalls' = {}
    /\ rateStores' = << >>
    /\ UNCHANGED << processorVars, truncVars, pruneVars, runnerVars, userVars, readVars,
                    catVars >>

\* one worker: the call to the node, which may fail, and data.Store
RateWorker(i) ==
    /\ ratePc = "workers"
    /\ i \in DOMAIN rateWorkers
    /\ rateWorkers[i] = "running"
    /\ LET call == GetReserveRates(rateBlock, supportedReserves[i])
       IN  /\ rateCalls' = rateCalls \cup { [worker |-> i, call |-> call] }
           /\ \E failed \in BOOLEAN :
                rateData' = Put(rateData, call.reserve,
                                IF failed THEN NoRates
                                ELSE [fromBlock |-> call.fromBlock, toBlock |-> call.toBlock,
                                      ok |-> TRUE])
    /\ rateWorkers' = [rateWorkers EXCEPT ![i] = "done"]
    /\ UNCHANGED << processorVars, truncVars, pruneVars, runnerVars, userVars, readVars,
                    catVars, ratePc, rateBlock, rateStores, rateTicks >>

\* the number of workers that have not returned
Running == Cardinality({ i \in DOMAIN rateWorkers : rateWorkers[i] = "running" })

\* the reserves data.Range has already passed
Stored == { rateStores[i].reserve : i \in 1..Len(rateStores) }

\* after wg.Wait(): data.Range calls StoreReserveRates for the next key, in
\* any order of the keys; after the last key FetchReserveRates returns
StoreReserveRates ==
    /\ ratePc = "workers"
    /\ Running = 0
    /\ \E reserveAddr \in DOMAIN rateData \ Stored :
         /\ rateStores' = Append(rateStores, [reserve |-> reserveAddr,
                                              rates |-> rateData[reserveAddr],
                                              running |-> Running])
         /\ ratePc' = IF DOMAIN rateData \ Stored = {reserveAddr} THEN "idle" ELSE "workers"
    /\ UNCHANGED << processorVars, truncVars, pruneVars, runnerVars, userVars, readVars,
                    catVars, rateBlock, rateWorkers, rateData, rateCalls, rateTicks >>

NextRates ==
    \/ FetchCurrentBlock
    \/ RateTick
    \/ \E i \in 1..Len(supportedReserves) : RateWorker(i)
    \/ StoreReserveRates

SpecRates == Init /\ [][NextRates]_vars

\* C36: within one rate tick every worker asks for the rates of the same
\* blocks (block-1, block) of the snapshot, also when currentBlock changes
\* while the workers run; nothing is stored while a worker is running; and
\* when the tick is over exactly one StoreReserveRates call was made for each
\* distinct reserve address.
C36_RateSnapshot ==
    /\ \A c \in rateCalls :
           c.call.fromBlock = U64(rateBlock - 1) /\ c.call.toBlock = rateBlock
    /\ \A c, d \in rateCalls :
           c.call.fromBlock = d.call.fromBlock /\ c.call.toBlock = d.call.toBlock
    /\ \A i \in 1..Len(rateStores) : rateStores[i].running = 0
    /\ \A i, j \in 1..Len(rateStores) : rateStores[i].reserve = rateStores[j].reserve => i = j
    /\ (ratePc = "idle" /\ rateTicks > 0) =>
           Stored = { supportedReserves[i] : i \in 1..Len(supportedReserves) }

\* a tick is over during which the block fetcher changed currentBlock after a
\* worker had made its call, and each of the two reserves was stored once
C36_Witness ==
    /\ ratePc = "idle" /\ rateTicks > 0
    /\ currentBlock # rateBlock
    /\ Cardinality(rateCalls) = Len(supportedReserves)
    /\ Len(rateStores) = 2


\* ------------------------------------------------ prune of an empty bucket
\* PruneOutdatedData's result: the error "There no version in <bucket>" is
\* returned when the loop is entered and c.First() finds no key; when the loop
\* condition fails the result is nil
RECURSIVE PruneOutdatedDataErr(_)
PruneOutdatedDataErr(bucket) ==
    IF GetNumberOfVersion(bucket) >= MAX_NUMBER_VERSION
    THEN IF bucket = {} THEN TRUE
         ELSE PruneOutdatedDataErr(bucket \ {First(bucket)})
    ELSE FALSE

\* a call of PruneOutdatedData on the versioned bucket
PruneVersions ==
    /\ versions' = PruneOutdatedData(versions)
    /\ deleted' = versions \ PruneOutdatedData(versions)
    /\ lastCall' = [op |-> "PruneOutdatedData", bucket |-> versions,
                    err |-> PruneOutdatedDataErr(versions)]
    /\ UNCHANGED << processorVars, readVars, truncVars, runnerVars, dailyBk, pruneCall,
                    addressCategory, pendingAddresses, addressUser, scenario, rateVars,
                    catVars >>

NextPrune == StoreVersion \/ PruneVersions

SpecPrune == InitVersions /\ [][NextPrune]_vars

\* C37: PruneOutdatedData on a versioned bucket that holds no entry returns
\* an error.
C37_EmptyPruneFails ==
    (lastCall.op = "PruneOutdatedData" /\ lastCall.bucket = {}) => lastCall.err


\* ------------------------------------------------------ bucket containment
\* the length of a bucket: a minute for M, an hour for H, a day for D and for
\* every utc<N>
period(freq) ==
    IF freq[1] \in {"m", "M"} THEN Minute
    ELSE IF freq[1] \in {"h", "H"} THEN Hour
    ELSE ui64Day

\* C38: for every timepoint t at least 14 hours after the epoch and every
\* frequency f, truncate(t, f) <= t < truncate(t, f) + period(f).
C38_BucketContains ==
    (truncPc = "once" /\ truncTime >= 14 * Hour)
        => /\ bucketTs <= truncTime
           /\ truncTime < bucketTs + period(truncFreq)


\* ------------------------------------------------------ cat-log processor
\* the category logs the log storage holds, and the times of the ticks
CatLogs ==
    { [Timestamp |-> 2700, Address |-> "0xA1", Category |-> "0x4A"],
      [Timestamp |-> 3000, Address |-> "0xa1", Category |-> "0x4A"],
      [Timestamp |-> 3600, Address |-> "0xa2", Category |-> "0x4A"],
      [Timestamp |-> 8100, Address |-> "0xa3", Category |-> "0x4A"] }
CatTicks == {2800, 3000, 5000, 9000}

\* LogStorage.GetCatLogs, GetFirstCatLog, GetLastCatLog
GetCatLogs(fromTime, toTime) ==
    { l \in CatLogs : fromTime <= l.Timestamp /\ l.Timestamp <= toTime }
GetFirstCatLog == CHOOSE l \in CatLogs : \A m \in CatLogs : l.Timestamp <= m.Timestamp
GetLastCatLog == CHOOSE l \in CatLogs : \A m \in CatLogs : l.Timestamp >= m.Timestamp

\* the loop over the batch, in the order of the timestamps: the logs of
\* failed are those for which UpdateAddressCategory returns an error; the
\* store and `last` after the loop
RECURSIVE CatLoop(_, _, _, _)
CatLoop(st, last, logs, failed) ==
    IF logs = {} THEN [st |-> st, last |-> last]
    ELSE LET l == CHOOSE x \in logs : \A y \in logs : x.Timestamp <= y.Timestamp
         IN  IF l \in failed
             THEN CatLoop(st, last, logs \ {l}, failed)
             ELSE CatLoop(CategoriseAddress(st, ToLower(l.Address), l.Category),
                          IF l.Timestamp > last THEN l.Timestamp ELSE last,
                          logs \ {l}, failed)

\* one tick of RunCatLogProcessor at time t
RunCatLogProcessor ==
    \E t \in CatTicks, failed \in SUBSET CatLogs :
        LET next == U64(catCheckpoint + 1)
            fromTime == IF next = 1 THEN U64(GetFirstCatLog.Timestamp - 1) ELSE next
            toTime == IF U64(t - fromTime) > MaxRange THEN U64(fromTime + MaxRange) ELSE t
            catLogs == GetCatLogs(fromTime, toTime)
            out == CatLoop(UserState, 0, catLogs, failed)
            written == IF catLogs # {} THEN out.last ELSE toTime
            wrote == catLogs # {} \/ toTime < GetLastCatLog.Timestamp
        IN  /\ failed \subseteq catLogs
            /\ catCheckpoint' = IF wrote THEN written ELSE catCheckpoint
            /\ addressCategory' = out.st.cat
            /\ pendingAddresses' = out.st.pend
            /\ addressUser' = out.st.conf
            /\ catRun' = [p |-> "cat", before |-> catCheckpoint, wrote |-> wrote,
                          written |-> written, fromTime |-> fromTime, toTime |-> toTime, batch |-> Cardinality(catLogs),
                          failed |-> Cardinality(failed)]
            /\ UNCHANGED << processorVars, readVars, truncVars, pruneVars, runnerVars,
                            rateVars, lastCall, scenario >>

SpecCat == InitUser /\ [][RunCatLogProcessor]_vars

\* C39: after every run of the cat-log processor, also one with a non-empty
\* batch in which UpdateAddressCategory fails for every log, the value written
\* by SetLastProcessedCatLogTimepoint is at least the checkpoint read at the
\* start of the run.
C39_CatCheckpointMonotone ==
    (catRun.p = "cat" /\ catRun.wrote) => catRun.written >= catRun.before


\* ------------------------------------------------- what a daily prune deletes
\* C40: PruneDailyBucket(now, Z) removes no key whose timestamp is greater
\* than now - 7 days from the daily-address or daily-user bucket of Z, and
\* changes no bucket of another offset.
C40_PruneOnlyExpired ==
    [][pruneCall'.done =>
          \A b \in DOMAIN dailyBk :
              /\ b[2] # pruneCall'.timezone => dailyBk'[b] = dailyBk[b]
              /\ \A k \in dailyBk[b] \ dailyBk'[b] :
                     KeyTime(k) + EXPIRED <= pruneCall'.timepoint]_vars
====
